---- MODULE Spec2Model ----
(***************************************************************************)
(* Liveness engine of identis-web.                                         *)
(*                                                                         *)
(* Spec    : the FaceMesh LivenessStep (src/src/components/LivenessStep.tsx*)
(*           lines 1084-1739): per-frame callback onFaceResults, the       *)
(*           challenge sequencer processChallenge, verifyLiveness, start   *)
(*           and retry, and the effects that copy React state into refs.   *)
(*                                                                         *)
(* Numbers are fixed-point integers:                                       *)
(*   ear, mouth, turn      in 1/100    (0.30 -> 30, 0.03 -> 3)             *)
(*   movement, positions   in 1/10000  (0.0005 -> 5, 0.05 -> 500)          *)
(*   threshold multipliers in 1/10     (0.6 -> 6, 1.0 -> 10)               *)
(*   scores                in 1/10     (0.3 -> 3, 1 -> 10)                 *)
(*   depth variance        in 1/100000 (0.0001 -> 10)                      *)
(***************************************************************************)
EXTENDS Integers, Sequences, FiniteSets, TLC

(***************************************************************************)
(* Bounds of the model (not program constants).                            *)
(***************************************************************************)
\* length of the burst of frames in which the user leaves the prompt
MaxSlack == 2
\* frames that may be handled ahead of one late render and its effects
MaxLag == 4
\* valid frames handled once stepRef is verifying, success or failed
MaxIdle == 1
\* requests to the backend that may be awaiting a response
MaxInflight == 2
\* frames out of character that the user of the brightness component shows
MaxQuiet == 2
\* frames the brightness loop may run between a setStep and its effect
MaxStale == 1
\* longest history handed to the scorer on its own
MaxSamples == 32
\* most frames of the first run of a blink script, and of its later runs
MaxCalibration == 9
MaxRun == 3
\* detect is followed for MaxStable frames with a face of good size
MaxStable == 7
\* the detection loops followed at once
MaxLoops == 3
\* earlier runs of init followed while they await play()
MaxOrphans == 1
\* frames of one gesture of the user that are counted
MaxFed == 18
\* frames of a challenge run on which the user leaves the gesture
MaxSlips == 1
\* a frame stream has no face in one frame of every NoFaceEvery
NoFaceEvery == 10
\* most blinks counted before submit
MaxBlinks == 2

(***************************************************************************)
(* Program constants, LivenessStep.tsx 1099-1104 and literals.             *)
(***************************************************************************)
MIN_SPOOF_SCORE == 3
BLINK_THRESHOLD == 6
SMILE_THRESHOLD == 10
TURN_THRESHOLD == 3
HOLD_REQUIRED == 4
METRICS_HISTORY_SIZE == 60
\* literals of onFaceResults / calcSpoofScore / processChallenge
BASELINE_FRAMES == 10
SCORE_MIN_HISTORY == 20
MOVEMENT_WINDOW == 20
EAR_WINDOW == 30
HOLD_DECAY == 2
\* the three sub-scores of calcSpoofScore, x10
MOVEMENT_CREDIT == 4
EAR_CREDIT == 3
depthScore == 3
\* the blink detector of the face-api variant: percent of the baseline
BLINK_DROP == 70
BLINK_RECOVER == 85
CALIBRATION_FRAMES == 8
EAR_VALUES_SIZE == 60

ChallengeTypes == {"blink", "smile", "turnLeft", "turnRight"}
StepType == {"loading", "ready", "challenge", "verifying", "success", "failed"}

VARIABLES
  step,              \* useState<StepType>
  stepRef,           \* stepRef.current
  challengeIndex,    \* useState(0)
  challengeIndexRef, \* challengeIndexRef.current
  faceDetected,      \* useState(false)
  faceValid,         \* useState(false)
  error,             \* useState(''), kept as a reason code
  holdFramesRef,     \* holdFramesRef.current
  challengesRef,     \* challengesRef.current
  metricsHistoryRef, \* metricsHistoryRef.current
  baselineRef,       \* baselineRef.current: << >> is null, <<b>> is set
  lastLandmarksRef,  \* lastLandmarksRef.current: << >> is null
  spoofScoreRef,     \* spoofScoreRef.current
  camera,            \* "off" | "starting" | "on": Camera frames flowing
  inflight,          \* fetch calls of verifyLiveness awaiting a response
  completed,         \* history: completions of this run, [i, hold]
  verified,          \* history: the request whose OK response set 'success'
  slack,             \* off-prompt frames left to the user
  burst,             \* kind of the off-prompt burst: "none" before it
  lag,               \* frames that may still be handled ahead of a render
  idle,              \* valid frames handled since the run ended
  ev                 \* history: the handler that ran last and what it did

fmvars == <<step, stepRef, challengeIndex, challengeIndexRef, faceDetected,
            faceValid, error, holdFramesRef, challengesRef, metricsHistoryRef,
            baselineRef, lastLandmarksRef, spoofScoreRef, camera, inflight,
            completed, verified, slack, burst, lag, idle, ev>>

\* the environment's budgets
env == <<slack, burst, lag, idle>>

(***************************************************************************)
(* The brightness LivenessStep (same file, second component): its state,   *)
(* and the closure of its detection effect                                  *)
(***************************************************************************)
VARIABLES
  pxStep,            \* useState<'init'|'ready'|...>: the component's step
  loading,           \* useState(false)
  pxError,           \* useState(''), kept as a reason code
  cameraReady,       \* useState(false)
  blinkCountRef,     \* blinkCountRef.current
  smileCountRef,     \* smileCountRef.current
  turnCountRef,      \* turnCountRef.current
  lastBrightnessRef, \* lastBrightnessRef.current
  tracksLive,        \* the stream's tracks have not been stopped
  closureStep,       \* the step captured by the effect that ran last
  rafPending,        \* requestAnimationFrame(detect) is pending
  blinkCooldown,     \* let blinkCooldown of the running effect
  timeoutArmed,      \* const timeout of the running effect, not yet fired
  pending,           \* fetch calls of completeLiveness awaiting a response
  user,              \* what the user does in this step: "acts" | "idles"
  quiet,             \* frames out of character left to the user
  stale,             \* frames the loop ran since the step left its closure
  pxEv               \* history: the handler that ran last and what it did

px == <<pxStep, loading, pxError, cameraReady, blinkCountRef, smileCountRef,
        turnCountRef, lastBrightnessRef, tracksLive, closureStep, rafPending,
        blinkCooldown, timeoutArmed, pending, user, quiet, stale, pxEv>>

(***************************************************************************)
(* The routines checked on their own: the values they are applied to and   *)
(* the values they returned                                                *)
(***************************************************************************)
VARIABLES
  eyePoints,         \* the eye landmarks handed to the eye-openness routines
  earValue,          \* what the routine applied last returned
  livenessScore,     \* let livenessScore of submit, with what it was made from
  routine            \* the routine this behaviour applies on its own, or "-"

fn == <<eyePoints, earValue, livenessScore, routine>>

(***************************************************************************)
(* The blink detector of the face-api variant of the component             *)
(***************************************************************************)
VARIABLES
  earValues,         \* earValues.current
  blinkState,        \* blinkState.current: 'waiting' | 'closed' | 'done'
  blinkCount,        \* blinkCount.current
  challengeComplete, \* challengeComplete.current
  nextStepPending,   \* setTimeout(nextStep, 300) is pending
  current,           \* challenges[currentStep]: 'blink' or another one
  frames,            \* the eye openness of the frames still to come
  faEv               \* history: what the frame handled last did

fa == <<earValues, blinkState, blinkCount, challengeComplete, nextStepPending,
        current, frames, faEv>>

(***************************************************************************)
(* Initialisation and teardown: the camera stream of a component and what  *)
(* holds it, while the asynchronous initialisation and the cleanup of the  *)
(* mount effect interleave                                                 *)
(***************************************************************************)
VARIABLES
  variant,           \* the component mounted: "FaceMesh", "face-api" or "-"
  mounted,           \* the component has not been unmounted
  initAt,            \* the await at which the initialisation stands
  stream,            \* the MediaStream of getUserMedia: none, live, stopped
  srcObject,         \* video.srcObject is the stream
  cameraRef,         \* cameraRef.current: null, created, started, stopped
  streamRef          \* streamRef.current is the stream

td == <<variant, mounted, initAt, stream, srcObject, cameraRef, streamRef>>

VARIABLES
  phase,             \* 'loading', 'ready', 'challenge', 'done' or 'error'
  faceOk,            \* the state faceOk
  readyToStart,      \* the state readyToStart
  stableCount,       \* stableCount.current
  lastFace           \* what detect found in the last frame it handled
rd == <<phase, faceOk, readyToStart, stableCount, lastFace>>

(***************************************************************************)
(* The detection loops of a face-api component: the init effect, its       *)
(* cleanup, and the detect calls that reschedule themselves                *)
(***************************************************************************)
VARIABLES
  comp,              \* "-", "part_002" (effect deps []) or "face-api"
                     \* (LivenessStep.tsx 760-1080, effect deps [detect])
  alive,             \* the component is mounted
  run,               \* the await at which init of the last effect run stands
  orphans,           \* earlier runs of init still awaiting play()
  loops,             \* per loop: "none", "scheduled" (a requestAnimationFrame
                     \* is pending) or "awaiting" (detect awaits the model)
  animRef,           \* the loop whose request id animRef.current holds, or 0
  tracks,            \* streamRef.current: "none", "live" or "stopped"
  loEv               \* the step of the loop model that ran last
lo == <<comp, alive, run, orphans, loops, animRef, tracks, loEv>>

(***************************************************************************)
(* The challenge run of part_002: the state start sets, the refs detect    *)
(* and nextStep write, and the user in front of the camera                 *)
(***************************************************************************)
VARIABLES
  wired,             \* "-", "running" (detect and nextStep of the first
                     \* render, which the loop of the mounted component
                     \* runs) or "routine" (those of the current render)
  chPhase,           \* the state phase, and phaseRef.current
  chStep,            \* the state step
  chStepRef,         \* stepRef.current
  chChallenges,      \* the state challenges
  seen,              \* challenges as detect and nextStep read it
  holdFrames,        \* holdFrames.current
  chEar,             \* earValues.current, x100
  chYaw,             \* yawValues.current, degrees
  chBlink,           \* blinkState.current
  chComplete,        \* challengeComplete.current
  timers,            \* pending setTimeout(nextStep, 300)
  actionTimes,       \* length of actionTimes.current
  submitted,         \* calls of submit
  fed,               \* frames the user has given to the prompt shown
  slips,             \* frames on which the user left the gesture
  lagged,            \* frames handled since setStep, stepRef not yet set
  lastPose,          \* the pose of the last frame of the camera
  chEv               \* the step of the challenge run that ran last
ch == <<wired, chPhase, chStep, chStepRef, chChallenges, seen, holdFrames,
        chEar, chYaw, chBlink, chComplete, timers, actionTimes, submitted,
        fed, slips, lagged, lastPose, chEv>>

VARIABLES
  feed,              \* the frame stream: "-", "oneInTen" or "noFace"
  tick               \* the position of the next frame in its group of ten
sf == <<feed, tick>>

vars == <<fmvars, px, fn, fa, td, rd, lo, ch, sf>>

(***************************************************************************)
(* Helpers                                                                 *)
(***************************************************************************)
Abs(x) == IF x < 0 THEN -x ELSE x
Max(a, b) == IF a > b THEN a ELSE b
Min(a, b) == IF a < b THEN a ELSE b

\* mutant: the exchange writes one side only
Swap_Overwrite(s, i, j) == [s EXCEPT ![i] = s[j]]

Swap(s, i, j) == [s EXCEPT ![i] = s[j], ![j] = s[i]]

(***************************************************************************)
(* Frames.  A FaceMeshResults value is modelled by its multiFaceLandmarks   *)
(* array: << >> (no face) or <<lm>> (one face).  A face is reduced to the   *)
(* quantities the code derives from the landmark points.                    *)
(***************************************************************************)
Poses == {"rest"} \cup ChallengeTypes
Positions == {0, 200}
Geometries == {"ok", "flat"}

\* the six points of one eye, reduced to the three distances calcEAR takes
\* from them: lid to lid twice (v1, v2) and corner to corner (h)
EyePoints(v1, v2, h) == [v1 |-> v1, v2 |-> v2, h |-> h]

Eye(pose) == IF pose = "blink" THEN EyePoints(1, 1, 10) ELSE EyePoints(3, 3, 10)

Face(pose, x, g) ==
  [ eyeL      |-> Eye(pose),
    eyeR      |-> Eye(pose),
    mouth     |-> IF pose = "smile" THEN 40 ELSE 20,
    turn      |-> IF pose = "turnLeft" THEN 5
                  ELSE IF pose = "turnRight" THEN -5 ELSE 0,
    x         |-> x,
    ratio     |-> 130,
    width     |-> 50,
    eyeRatio  |-> 40,
    eyesAbove |-> TRUE,
    zvar      |-> IF g = "flat" THEN 1 ELSE 50 ]

Landmarks == { Face(p, x, g) : p \in Poses, x \in Positions, g \in Geometries }
NoFace == << >>
Frames == {NoFace} \cup { <<lm>> : lm \in Landmarks }

(***************************************************************************)
(* Metric extractor                                                        *)
(***************************************************************************)
\* a JavaScript number: finite (val is the value x100), Infinity or NaN
Finite(n) == [kind |-> "finite", val |-> n]
Infinity == [kind |-> "Infinity", val |-> 0]
NaN == [kind |-> "NaN", val |-> 0]

\* a / b of two non-negative numbers; n / 0 is Infinity and 0 / 0 is NaN
Divide(a, b) ==
  IF b # 0 THEN Finite(a \div b)
  ELSE IF a # 0 THEN Infinity ELSE NaN

\* the face-api variant of the routine, which guards the division
calculateEAR(p) ==
  IF p.h = 0 THEN Finite(30) ELSE Divide((p.v1 + p.v2) * 100, 2 * p.h)

calcEAR(lm, eye) ==
  LET p == IF eye = "LEFT_EYE" THEN lm.eyeL ELSE lm.eyeR
  IN Divide((p.v1 + p.v2) * 100, 2 * p.h)

\* (a + b) / 2 of two non-negative numbers
Mean2(a, b) ==
  IF a.kind = "NaN" \/ b.kind = "NaN" THEN NaN
  ELSE IF a.kind = "Infinity" \/ b.kind = "Infinity" THEN Infinity
  ELSE Finite((a.val + b.val) \div 2)
calcMouth(lm) == lm.mouth
calcTurn(lm) == lm.turn

\* mean displacement of the five stable points against the previous frame
calcMovement(lm, prev) ==
  IF prev = << >> THEN 0
  ELSE (5 * Abs(lm.x - prev[1].x)) \div 5

Metrics(lm, prev) ==
  [ ear      |-> Mean2(calcEAR(lm, "LEFT_EYE"), calcEAR(lm, "RIGHT_EYE")).val,
    mouth    |-> calcMouth(lm),
    turn     |-> calcTurn(lm),
    movement |-> calcMovement(lm, prev) ]

(***************************************************************************)
(* Face geometry validator                                                 *)
(***************************************************************************)
validateFaceGeometry_NoOval(lm) ==
  IF Abs(lm.turn) > 40 THEN FALSE
  ELSE IF ~lm.eyesAbove THEN FALSE
  ELSE IF lm.zvar < 10 THEN FALSE
  ELSE TRUE

validateFaceGeometry_NoDepth(lm) ==
  IF lm.ratio < 80 \/ lm.ratio > 250 THEN FALSE
  ELSE IF Abs(lm.turn) > 40 THEN FALSE
  ELSE IF ~lm.eyesAbove THEN FALSE
  ELSE TRUE

validateFaceGeometry(lm) ==
  IF lm.ratio < 80 \/ lm.ratio > 250 THEN FALSE
  ELSE IF Abs(lm.turn) > 40 THEN FALSE
  ELSE IF ~lm.eyesAbove THEN FALSE
  ELSE IF lm.zvar < 10 THEN FALSE
  ELSE TRUE

(***************************************************************************)
(* Anti-spoof scorer                                                       *)
(***************************************************************************)
RECURSIVE SumMovement(_, _, _)
SumMovement(h, i, j) ==
  IF i > j THEN 0 ELSE h[i].movement + SumMovement(h, i + 1, j)

RECURSIVE SumEar(_, _, _)
SumEar(h, i, j) == IF i > j THEN 0 ELSE h[i].ear + SumEar(h, i + 1, j)

RECURSIVE SumEarSq(_, _, _)
SumEarSq(h, i, j) ==
  IF i > j THEN 0 ELSE h[i].ear * h[i].ear + SumEarSq(h, i + 1, j)

\* first index of history.slice(-n)
SliceStart(h, n) == IF Len(h) <= n THEN 1 ELSE Len(h) - n + 1

movementScoreOf_Heavy(history) == 2 * MOVEMENT_CREDIT

movementScoreOf_Partial(history) ==
  LET from  == SliceStart(history, MOVEMENT_WINDOW)
      n     == Len(history) - from + 1
      total == SumMovement(history, from, Len(history))
  IN  IF total > 5 * n /\ total < 500 * n THEN MOVEMENT_CREDIT
      ELSE IF total > 0 THEN MOVEMENT_CREDIT \div 2 ELSE 0

movementScoreOf(history) ==
  LET from  == SliceStart(history, MOVEMENT_WINDOW)
      n     == Len(history) - from + 1
      total == SumMovement(history, from, Len(history))
  IN  \* avgMovement > 0.0005 && avgMovement < 0.05
      IF total > 5 * n /\ total < 500 * n THEN MOVEMENT_CREDIT ELSE 0

earScoreOf(history) ==
  LET from == SliceStart(history, EAR_WINDOW)
      n    == Len(history) - from + 1
      s1   == SumEar(history, from, Len(history))
      s2   == SumEarSq(history, from, Len(history))
  IN  \* earVariance > 0.0001, variance = s2/n - (s1/n)^2
      IF n * s2 - s1 * s1 > n * n THEN EAR_CREDIT ELSE 0

calcSpoofScore(history) ==
  IF Len(history) < SCORE_MIN_HISTORY THEN 0
  ELSE Min(10, movementScoreOf(history) + earScoreOf(history) + depthScore)

(***************************************************************************)
(* shuffle: Fisher-Yates, r[i] is the draw floor(random * (i + 1)) made    *)
(* for position i (1-based here).                                          *)
(***************************************************************************)
RECURSIVE ShuffleFrom(_, _, _)
ShuffleFrom(s, i, r) ==
  IF i <= 1 THEN s ELSE ShuffleFrom(Swap(s, i, r[i]), i - 1, r)

ALL_CHALLENGES == <<"blink", "smile", "turnLeft", "turnRight">>

\* the draws made for position i: the smallest and the largest floor
DrawsAt(i) == IF i = 3 THEN {i} ELSE {1, i}

Draws == { r \in [2..Len(ALL_CHALLENGES) -> 1..Len(ALL_CHALLENGES)] :
             \A i \in DOMAIN r : r[i] \in DrawsAt(i) }

shuffle(arr, r) == ShuffleFrom(arr, Len(arr), r)

(***************************************************************************)
(* Challenge sequencer: the pieces of processChallenge and onFaceResults   *)
(***************************************************************************)
\* the switch of processChallenge
Detected(challenge, m, baseline) ==
  CASE challenge = "blink"     -> m.ear * 10 < baseline.ear * BLINK_THRESHOLD
    [] challenge = "smile"     ->
         m.mouth * 10 > baseline.mouth * SMILE_THRESHOLD
    [] challenge = "turnLeft"  -> m.turn > TURN_THRESHOLD
    [] challenge = "turnRight" -> m.turn < -TURN_THRESHOLD
    [] OTHER                   -> FALSE

\* holdFramesRef.current++ on a detected frame
HoldInc(hold) == hold + 1

\* mutant: the decay without its floor
HoldDecay_Unclamped(hold) == hold - HOLD_DECAY

\* mutant: a failing frame resets the counter outright
HoldDecay_Reset(hold) == 0

\* "Decay hold frames"
HoldDecay(hold) == Max(0, hold - HOLD_DECAY)

\* if (holdFramesRef.current >= HOLD_REQUIRED)
HoldReached(hold) == hold >= HOLD_REQUIRED

\* mutant: the index skips a challenge
NextIndex_Skip(index) == index + 2

\* const nextIndex = challengeIndexRef.current + 1
NextIndex(index) == index + 1

\* mutant: the run completes one challenge early
IsLastChallenge_OffByOne(nextIndex, challenges) ==
  nextIndex >= Len(challenges) - 1

\* if (nextIndex >= challengesRef.current.length)
IsLastChallenge(nextIndex, challenges) == nextIndex >= Len(challenges)

\* mutant: a full window keeps growing
PushMetrics_NoEvict(history, m) == Append(history, m)

\* metricsHistoryRef.current.push(metrics); shift() beyond the window
PushMetrics(history, m) ==
  LET pushed == Append(history, m)
  IN  IF Len(pushed) > METRICS_HISTORY_SIZE THEN Tail(pushed) ELSE pushed

RECURSIVE SumMouth(_, _, _)
SumMouth(h, i, j) == IF i > j THEN 0 ELSE h[i].mouth + SumMouth(h, i + 1, j)

RECURSIVE SumTurn(_, _, _)
SumTurn(h, i, j) == IF i > j THEN 0 ELSE h[i].turn + SumTurn(h, i + 1, j)

\* mutant: the baseline follows every frame once the history is long enough
NextBaseline_Rolling(history, baseline, m) ==
  IF Len(history) >= BASELINE_FRAMES
  THEN << [ear |-> m.ear, mouth |-> m.mouth, turn |-> m.turn] >>
  ELSE baseline

\* mutant: the baseline is the mean of the first frames
NextBaseline_Mean(history, baseline, m) ==
  IF Len(history) = BASELINE_FRAMES /\ baseline = << >>
  THEN << [ear   |-> SumEar(history, 1, BASELINE_FRAMES) \div BASELINE_FRAMES,
           mouth |-> SumMouth(history, 1, BASELINE_FRAMES)
                       \div BASELINE_FRAMES,
           turn  |-> SumTurn(history, 1, BASELINE_FRAMES)
                       \div BASELINE_FRAMES] >>
  ELSE baseline

\* "Establish baseline after 10 frames"
NextBaseline(history, baseline, m) ==
  IF Len(history) = BASELINE_FRAMES /\ baseline = << >>
  THEN << [ear |-> m.ear, mouth |-> m.mouth, turn |-> m.turn] >>
  ELSE baseline

\* if (spoofScore < MIN_SPOOF_SCORE) -> failed
ScoreAccepted_Always(score) == TRUE
ScoreAccepted(score) == ~(score < MIN_SPOOF_SCORE)

\* the guard before processChallenge in onFaceResults
ChallengeActive(sref, baseline) == sref = "challenge" /\ baseline # << >>

Synced == stepRef = step /\ challengeIndexRef = challengeIndex

\* the frame the user interface asks for
Prompted ==
  IF ChallengeActive(stepRef, baselineRef)
  THEN challengesRef[challengeIndexRef + 1] ELSE "rest"

LastX == IF lastLandmarksRef = << >> THEN 0 ELSE lastLandmarksRef[1].x

\* the record of the handler that ran: `was` is the hold counter it found
Ev(op, face, hit) == [op |-> op, face |-> face, hit |-> hit, was |-> 0]
EvFrame(face, hit, was) ==
  [op |-> "frame", face |-> face, hit |-> hit, was |-> was]

(***************************************************************************)
(* Init: the component after its first render, initMediaPipe running        *)
(***************************************************************************)
Mount(r, late) ==
  /\ step = "loading"
  /\ stepRef = "loading"
  /\ challengeIndex = 0
  /\ challengeIndexRef = 0
  /\ faceDetected = FALSE
  /\ faceValid = FALSE
  /\ error = ""
  /\ holdFramesRef = 0
  /\ challengesRef = shuffle(ALL_CHALLENGES, r)
  /\ metricsHistoryRef = << >>
  /\ baselineRef = << >>
  /\ lastLandmarksRef = << >>
  /\ spoofScoreRef = 0
  /\ camera = "off"
  /\ inflight = << >>
  /\ completed = << >>
  /\ verified = << >>
  \* a behaviour has an off-prompt burst or a late render
  /\ slack = IF late THEN 0 ELSE MaxSlack
  /\ lag = IF late THEN MaxLag ELSE 0
  /\ burst = "none"
  /\ idle = 0
  /\ ev = Ev("mount", "-", "-")

\* the brightness component after its first render
PxMount ==
  /\ pxStep = "init"
  /\ loading = FALSE
  /\ pxError = ""
  /\ cameraReady = FALSE
  /\ blinkCountRef = 0
  /\ smileCountRef = 0
  /\ turnCountRef = 0
  /\ lastBrightnessRef = << >>
  /\ tracksLive = FALSE
  /\ closureStep = "init"
  /\ rafPending = FALSE
  /\ blinkCooldown = FALSE
  /\ timeoutArmed = FALSE
  /\ pending = << >>
  /\ user = "idles"
  /\ quiet = MaxQuiet
  /\ stale = 0
  /\ pxEv = [op |-> "mount", from |-> "-"]

NoScore(nm, ht, bc) ==
  [ naturalMovement |-> nm, humanTiming |-> ht, blinkCount |-> bc,
    by |-> "-", sum |-> 0, score |-> 0 ]

FnMount ==
  /\ routine = "-"
  /\ eyePoints = Eye("rest")
  /\ earValue = [by |-> "-", ear |-> NaN]
  /\ livenessScore = NoScore(FALSE, FALSE, 0)

FaMount ==
  /\ earValues = << >>
  /\ blinkState = "waiting"
  /\ blinkCount = 0
  /\ challengeComplete = FALSE
  /\ nextStepPending = FALSE
  /\ current = "blink"
  /\ frames = << >>
  /\ faEv = [op |-> "mount", avgEAR |-> 0, sum |-> 0, was |-> "waiting"]

\* the face-api component of part_001 before its models are loaded
RdMount ==
  /\ phase = "loading"
  /\ faceOk = FALSE
  /\ readyToStart = FALSE
  /\ stableCount = 0
  /\ lastFace = "-"

LoMount ==
  /\ comp = "-"
  /\ alive = TRUE
  /\ run = "-"
  /\ orphans = 0
  /\ loops = [i \in 1..MaxLoops |-> "none"]
  /\ animRef = 0
  /\ tracks = "none"
  /\ loEv = "mount"

\* part_002 at its first render
ChMount ==
  /\ wired = "-"
  /\ chPhase = "loading"
  /\ chStep = 0
  /\ chStepRef = 0
  /\ chChallenges = << >>
  /\ seen = << >>
  /\ holdFrames = 0
  /\ chEar = << >>
  /\ chYaw = << >>
  /\ chBlink = "waiting"
  /\ chComplete = FALSE
  /\ timers = 0
  /\ actionTimes = 0
  /\ submitted = 0
  /\ fed = 0
  /\ slips = 0
  /\ lagged = 0
  /\ lastPose = "front"
  /\ chEv = "mount"

SfMount ==
  /\ feed = "-"
  /\ tick = 0

TdMount ==
  /\ variant = "-"
  /\ mounted = TRUE
  /\ initAt = "-"
  /\ stream = "none"
  /\ srcObject = FALSE
  /\ cameraRef = "null"
  /\ streamRef = FALSE

Init ==
  /\ \E r \in Draws : \E late \in BOOLEAN : Mount(r, late)
  /\ PxMount
  /\ FnMount
  /\ FaMount
  /\ TdMount
  /\ RdMount
  /\ LoMount
  /\ ChMount
  /\ SfMount

(***************************************************************************)
(* initMediaPipe                                                           *)
(***************************************************************************)
\* cameraRef.current.start() has been called: frames begin to arrive
CameraStart ==
  /\ step = "loading" /\ camera = "off"
  /\ camera' = "starting"
  /\ ev' = Ev("cameraStart", "-", "-")
  /\ UNCHANGED <<step, stepRef, challengeIndex, challengeIndexRef,
                 faceDetected, faceValid, error, holdFramesRef, challengesRef,
                 metricsHistoryRef, baselineRef, lastLandmarksRef,
                 spoofScoreRef, inflight, completed, verified, env>>
  /\ UNCHANGED <<px, fn, fa, td, rd, lo, ch, sf>>

\* the await of start() returns: setStep('ready')
InitDone ==
  /\ camera = "starting"
  /\ camera' = "on"
  /\ step' = "ready"
  /\ ev' = Ev("initDone", "-", "-")
  /\ UNCHANGED <<stepRef, challengeIndex, challengeIndexRef,
                 faceDetected, faceValid, error, holdFramesRef, challengesRef,
                 metricsHistoryRef, baselineRef, lastLandmarksRef,
                 spoofScoreRef, inflight, completed, verified, env>>
  /\ UNCHANGED <<px, fn, fa, td, rd, lo, ch, sf>>

\* FaceMesh/Camera missing, getUserMedia or play rejected: catch branch
InitFail ==
  /\ step = "loading" /\ camera = "off"
  /\ camera' = "failed"
  /\ step' = "failed"
  /\ error' = "init"
  /\ ev' = Ev("initFail", "-", "-")
  /\ UNCHANGED <<stepRef, challengeIndex, challengeIndexRef,
                 faceDetected, faceValid, holdFramesRef, challengesRef,
                 metricsHistoryRef, baselineRef, lastLandmarksRef,
                 spoofScoreRef, inflight, completed, verified, env>>
  /\ UNCHANGED <<px, fn, fa, td, rd, lo, ch, sf>>

\* the effects "stepRef.current = step" and "challengeIndexRef.current =
\* challengeIndex", run after the render that follows a state change
SyncRefs ==
  /\ ~Synced
  /\ stepRef' = step
  /\ challengeIndexRef' = challengeIndex
  /\ lag' = IF lag < MaxLag THEN 0 ELSE lag
  /\ ev' = Ev("sync", "-", "-")
  /\ UNCHANGED <<step, challengeIndex, faceDetected, faceValid, error,
                 holdFramesRef, challengesRef, metricsHistoryRef, baselineRef,
                 lastLandmarksRef, spoofScoreRef, camera, inflight, completed,
                 verified, slack, burst, idle>>
  /\ UNCHANGED <<px, fn, fa, td, rd, lo, ch, sf>>

(***************************************************************************)
(* onFaceResults, with processChallenge and the synchronous part of         *)
(* verifyLiveness that it calls                                             *)
(***************************************************************************)
Request(score, challenges, done) ==
  [ livenessScore       |-> score,
    challengesCompleted |-> challenges,
    antiSpoofScore      |-> score,
    done                |-> done ]

\* the other pose a user may take: acting before the baseline exists, or
\* resting while a challenge is prompted
AltPose ==
  IF Prompted = "rest" THEN challengesRef[challengeIndex + 1] ELSE "rest"

\* the frame the prompt asks for
OnPrompt(f) == f = << Face(Prompted, LastX, "ok") >>

\* the kind of a frame that leaves the prompt: seen flat, the other pose,
\* or the head moved
OffPrompt(f, kind) ==
  \/ /\ kind = "flat" /\ step \in {"ready", "challenge"}
     /\ f = << Face(Prompted, LastX, "flat") >>
  \/ /\ kind = "alt" /\ step = "challenge"
     /\ f = << Face(AltPose, LastX, "ok") >>
  \/ /\ kind = "moved" /\ step = "challenge"
     /\ \E x \in Positions \ {LastX} : f = << Face(Prompted, x, "ok") >>

\* the frame handler sees a step after the run: it only extends the history
RunEnded == stepRef \in {"verifying", "success", "failed"}

\* what the environment may send next: the frames off the prompt form one
\* burst of a single kind, frames ahead of a render belong to one render
FrameBudget(f) ==
  /\ camera \in {"starting", "on"}
  /\ UNCHANGED sf
  /\ IF Synced THEN lag' = lag ELSE lag > 0 /\ lag' = lag - 1
  /\ \/ /\ f = NoFace
        /\ UNCHANGED <<slack, burst>>
     \/ /\ OnPrompt(f)
        /\ slack' = IF burst = "none" THEN slack ELSE 0
        /\ burst' = burst
     \/ /\ ~OnPrompt(f)
        /\ slack > 0
        /\ \E kind \in {"flat", "alt", "moved"} :
             /\ OffPrompt(f, kind)
             /\ burst \in {"none", kind}
             /\ burst' = kind
        /\ slack' = slack - 1
  /\ IF f # NoFace /\ RunEnded
     THEN idle < MaxIdle /\ idle' = idle + 1
     ELSE idle' = idle

\* mutant: losing the face restarts the collection of samples
FrameNoFace_Restart(f) ==
  /\ f = NoFace
  /\ FrameBudget(f)
  /\ faceDetected' = FALSE
  /\ faceValid' = FALSE
  /\ metricsHistoryRef' = << >>
  /\ ev' = EvFrame("none", "-", holdFramesRef)
  /\ UNCHANGED <<step, stepRef, challengeIndex, challengeIndexRef, error,
                 holdFramesRef, challengesRef, baselineRef,
                 lastLandmarksRef, spoofScoreRef, camera, inflight, completed,
                 verified>>
  /\ UNCHANGED <<px, fn, fa, td, rd, lo, ch, sf>>

\* mutant: losing the face during a run fails the session
FrameNoFace_Fatal(f) ==
  /\ f = NoFace
  /\ FrameBudget(f)
  /\ faceDetected' = FALSE
  /\ faceValid' = FALSE
  /\ step' = IF step = "challenge" THEN "failed" ELSE step
  /\ ev' = EvFrame("none", "-", holdFramesRef)
  /\ UNCHANGED <<stepRef, challengeIndex, challengeIndexRef, error,
                 holdFramesRef, challengesRef, metricsHistoryRef, baselineRef,
                 lastLandmarksRef, spoofScoreRef, camera, inflight, completed,
                 verified>>
  /\ UNCHANGED <<px, fn, fa, td, rd, lo, ch, sf>>

\* mutant: losing the face during a run fails the session
HandleNoFace_Fatal ==
  /\ faceDetected' = FALSE
  /\ faceValid' = FALSE
  /\ step' = IF step = "challenge" THEN "failed" ELSE step
  /\ ev' = EvFrame("none", "-", holdFramesRef)
  /\ UNCHANGED <<stepRef, challengeIndex, challengeIndexRef, error,
                 holdFramesRef, challengesRef, metricsHistoryRef, baselineRef,
                 lastLandmarksRef, spoofScoreRef, camera, inflight, completed,
                 verified>>
  /\ UNCHANGED <<px, fn, fa, td, rd, lo, ch>>

\* results.multiFaceLandmarks missing or empty
HandleNoFace ==
  /\ faceDetected' = FALSE
  /\ faceValid' = FALSE
  /\ ev' = EvFrame("none", "-", holdFramesRef)
  /\ UNCHANGED <<step, stepRef, challengeIndex, challengeIndexRef, error,
                 holdFramesRef, challengesRef, metricsHistoryRef, baselineRef,
                 lastLandmarksRef, spoofScoreRef, camera, inflight, completed,
                 verified>>
  /\ UNCHANGED <<px, fn, fa, td, rd, lo, ch>>

FrameNoFace(f) ==
  /\ f = NoFace
  /\ FrameBudget(f)
  /\ HandleNoFace

\* mutant: a frame the validator rejects is measured and scored all the same
HandleInvalid_Push(f, op) ==
  /\ faceDetected' = TRUE
  /\ faceValid' = FALSE
  /\ lastLandmarksRef' = f
  /\ metricsHistoryRef' =
       PushMetrics(metricsHistoryRef, Metrics(f[1], lastLandmarksRef))
  /\ spoofScoreRef' = calcSpoofScore(metricsHistoryRef')
  /\ ev' = [EvFrame("invalid", "-", holdFramesRef) EXCEPT !.op = op]
  /\ UNCHANGED <<step, stepRef, challengeIndex, challengeIndexRef, error,
                 holdFramesRef, challengesRef, baselineRef,
                 camera, inflight, completed, verified>>
  /\ UNCHANGED <<px, fn, fa, td, rd, lo, ch>>

\* onFaceResults when validateFaceGeometry(landmarks) is false
HandleInvalid(f, op) ==
  /\ faceDetected' = TRUE
  /\ faceValid' = FALSE
  /\ lastLandmarksRef' = f
  /\ ev' = [EvFrame("invalid", "-", holdFramesRef) EXCEPT !.op = op]
  /\ UNCHANGED <<step, stepRef, challengeIndex, challengeIndexRef, error,
                 holdFramesRef, challengesRef, metricsHistoryRef, baselineRef,
                 spoofScoreRef, camera, inflight, completed, verified>>
  /\ UNCHANGED <<px, fn, fa, td, rd, lo, ch>>

FrameInvalid(f) ==
  /\ f # NoFace
  /\ ~validateFaceGeometry(f[1])
  /\ FrameBudget(f)
  /\ HandleInvalid(f, "frame")

\* verifyLiveness up to its await: the score gate, then the request
VerifyLiveness(score, done) ==
  IF ScoreAccepted(score)
  THEN /\ Len(inflight) < MaxInflight
       /\ step' = "verifying"
       /\ inflight' = Append(inflight, Request(score, challengesRef, done))
       /\ error' = error
  ELSE /\ step' = "failed"
       /\ error' = "score"
       /\ inflight' = inflight

\* onFaceResults when validateFaceGeometry(landmarks) is true
HandleValid(f, op) ==
  /\ LET m         == Metrics(f[1], lastLandmarksRef)
         history   == PushMetrics(metricsHistoryRef, m)
         score     == calcSpoofScore(history)
         baseline  == NextBaseline(history, baselineRef, m)
         active    == ChallengeActive(stepRef, baseline)
         challenge == challengesRef[challengeIndexRef + 1]
         detected  == active /\ Detected(challenge, m, baseline[1])
         hold      == HoldInc(holdFramesRef)
         reached   == detected /\ HoldReached(hold)
         nextIndex == NextIndex(challengeIndexRef)
         last      == reached /\ IsLastChallenge(nextIndex, challengesRef)
         done      == IF reached
                      THEN Append(completed,
                                  [i |-> challengeIndexRef, hold |-> hold])
                      ELSE completed
     IN  /\ faceDetected' = TRUE
         /\ faceValid' = TRUE
         /\ metricsHistoryRef' = history
         /\ spoofScoreRef' = score
         /\ baselineRef' = baseline
         /\ lastLandmarksRef' = f
         /\ holdFramesRef' = IF ~active THEN holdFramesRef
                             ELSE IF reached THEN 0
                             ELSE IF detected THEN hold
                             ELSE HoldDecay(holdFramesRef)
         /\ challengeIndex' = IF reached /\ ~last THEN nextIndex
                              ELSE challengeIndex
         /\ completed' = done
         /\ IF ~last
            THEN UNCHANGED <<step, error, inflight>>
            ELSE VerifyLiveness(score, done)
         /\ ev' = [EvFrame("valid",
                           IF ~active THEN "idle"
                           ELSE IF last THEN "last"
                           ELSE IF reached THEN "next"
                           ELSE IF detected THEN "pass" ELSE "decay",
                           holdFramesRef) EXCEPT !.op = op]
  /\ UNCHANGED <<stepRef, challengeIndexRef, challengesRef, camera, verified>>
  /\ UNCHANGED <<px, fn, fa, td, rd, lo, ch>>

FrameValid(f) ==
  /\ f # NoFace
  /\ validateFaceGeometry(f[1])
  /\ FrameBudget(f)
  /\ HandleValid(f, "frame")

onFaceResults(f) == FrameNoFace(f) \/ FrameInvalid(f) \/ FrameValid(f)

(***************************************************************************)
(* verifyLiveness after the await: the response of the backend             *)
(***************************************************************************)
RemoveAt(s, i) == [j \in 1..(Len(s) - 1) |-> IF j < i THEN s[j] ELSE s[j + 1]]

\* res.ok
FetchOk(i) ==
  /\ i \in 1..Len(inflight)
  /\ step' = "success"
  /\ verified' = << inflight[i] >>
  /\ inflight' = RemoveAt(inflight, i)
  /\ ev' = Ev("fetchOk", "-", "-")
  /\ UNCHANGED <<stepRef, challengeIndex, challengeIndexRef, faceDetected,
                 faceValid, error, holdFramesRef, challengesRef,
                 metricsHistoryRef, baselineRef, lastLandmarksRef,
                 spoofScoreRef, camera, completed, env>>
  /\ UNCHANGED <<px, fn, fa, td, rd, lo, ch, sf>>

\* !res.ok or fetch rejected: catch branch
FetchFail(i) ==
  /\ i \in 1..Len(inflight)
  /\ step' = "failed"
  /\ error' = "network"
  /\ inflight' = RemoveAt(inflight, i)
  /\ ev' = Ev("fetchFail", "-", "-")
  /\ UNCHANGED <<stepRef, challengeIndex, challengeIndexRef, faceDetected,
                 faceValid, holdFramesRef, challengesRef,
                 metricsHistoryRef, baselineRef, lastLandmarksRef,
                 spoofScoreRef, camera, completed, verified, env>>
  /\ UNCHANGED <<px, fn, fa, td, rd, lo, ch, sf>>

(***************************************************************************)
(* startChallenges and retry: the two buttons, shown once the step they     *)
(* belong to has been rendered                                              *)
(***************************************************************************)
startChallenges(r) ==
  /\ step = "ready" /\ Synced
  /\ IF ~faceValid
     THEN /\ error' = "position"
          /\ ev' = Ev("start", "-", "blocked")
          /\ UNCHANGED <<step, challengeIndex, holdFramesRef, challengesRef,
                         metricsHistoryRef, baselineRef, spoofScoreRef,
                         completed>>
     ELSE /\ holdFramesRef' = 0
          /\ challengesRef' = shuffle(ALL_CHALLENGES, r)
          /\ metricsHistoryRef' = << >>
          /\ baselineRef' = << >>
          /\ spoofScoreRef' = 0
          /\ challengeIndex' = 0
          /\ step' = "challenge"
          /\ error' = ""
          /\ completed' = << >>
          /\ ev' = Ev("start", "-", "started")
  /\ UNCHANGED <<stepRef, challengeIndexRef, faceDetected, faceValid,
                 lastLandmarksRef, camera, inflight, verified, env>>
  /\ UNCHANGED <<px, fn, fa, td, rd, lo, ch, sf>>

\* mutant: retry leaves the challenge index where the failed attempt ended
retry_KeepIndex(r) ==
  /\ step = "failed" /\ Synced
  /\ holdFramesRef' = 0
  /\ challengesRef' = shuffle(ALL_CHALLENGES, r)
  /\ metricsHistoryRef' = << >>
  /\ baselineRef' = << >>
  /\ spoofScoreRef' = 0
  /\ lastLandmarksRef' = << >>
  /\ error' = ""
  /\ step' = "ready"
  /\ completed' = << >>
  /\ idle' = 0
  /\ ev' = Ev("retry", "-", "-")
  /\ UNCHANGED <<stepRef, challengeIndex, challengeIndexRef, faceDetected,
                 faceValid, camera, inflight, verified, slack, burst, lag>>
  /\ UNCHANGED <<px, fn, fa, td, rd, lo, ch, sf>>

\* mutant: retry keeps the history and the baseline of the failed attempt
retry_KeepEvidence(r) ==
  /\ step = "failed" /\ Synced
  /\ holdFramesRef' = 0
  /\ challengesRef' = shuffle(ALL_CHALLENGES, r)
  /\ spoofScoreRef' = 0
  /\ lastLandmarksRef' = << >>
  /\ challengeIndex' = 0
  /\ error' = ""
  /\ step' = "ready"
  /\ completed' = << >>
  /\ idle' = 0
  /\ ev' = Ev("retry", "-", "-")
  /\ UNCHANGED <<stepRef, challengeIndexRef, faceDetected, faceValid,
                 metricsHistoryRef, baselineRef,
                 camera, inflight, verified, slack, burst, lag>>
  /\ UNCHANGED <<px, fn, fa, td, rd, lo, ch, sf>>

retry(r) ==
  /\ step = "failed" /\ Synced
  /\ holdFramesRef' = 0
  /\ challengesRef' = shuffle(ALL_CHALLENGES, r)
  /\ metricsHistoryRef' = << >>
  /\ baselineRef' = << >>
  /\ spoofScoreRef' = 0
  /\ lastLandmarksRef' = << >>
  /\ challengeIndex' = 0
  /\ error' = ""
  /\ step' = "ready"
  /\ completed' = << >>
  /\ idle' = 0
  /\ ev' = Ev("retry", "-", "-")
  /\ UNCHANGED <<stepRef, challengeIndexRef, faceDetected, faceValid,
                 camera, inflight, verified, slack, burst, lag>>
  /\ UNCHANGED <<px, fn, fa, td, rd, lo, ch, sf>>

Next ==
  \/ CameraStart
  \/ InitDone
  \/ InitFail
  \/ SyncRefs
  \/ \E f \in Frames : onFaceResults(f)
  \/ \E i \in 1..MaxInflight : FetchOk(i)
  \/ \E i \in 1..MaxInflight : FetchFail(i)
  \/ \E r \in Draws : startChallenges(r)
  \/ \E r \in Draws : retry(r)

Spec == Init /\ [][Next]_vars

(***************************************************************************)
(* The brightness LivenessStep: blink, smile and turn read from the         *)
(* brightness of the eye region, each step with a 15 s timer                *)
(***************************************************************************)
movementThreshold == 5
BLINKS_REQUIRED == 3
SMILE_FRAMES == 30
TURN_FRAMES == 20
BRIGHTNESS_HISTORY == 10
\* livenessScore: 0.95, in hundredths
LIVENESS_SCORE == 95

PxStepType ==
  {"init", "ready", "blink", "smile", "turn", "verifying", "success"}
PxChallengeSteps == {"blink", "smile", "turn"}

\* eye-region brightness of a frame; a stopped track shows one picture
Brightness == {100, 104, 110}
StoppedBrightness == 0

\* lastBrightnessRef after analyzeFrame has pushed (and shifted)
PushBrightness(hist, b) ==
  LET h == Append(hist, b)
  IN IF Len(h) > BRIGHTNESS_HISTORY THEN Tail(h) ELSE h

\* the movement analyzeFrame returns, read from the pushed history
analyzeFrame(hist) ==
  IF Len(hist) > 1 THEN Abs(hist[Len(hist)] - hist[Len(hist) - 1]) ELSE 0

\* result.movement > movementThreshold, * 0.5, * 1.5
BlinkMoved(movement) == movement > movementThreshold
SmileMoved(movement) == 2 * movement > movementThreshold
TurnMoved(movement) == 2 * movement > 3 * movementThreshold

\* the frame of a user who acts (the picture keeps moving) or idles (the
\* picture stands still); a step lasts its 15 s only with an idle user
InCharacter(b, mode) ==
  IF lastBrightnessRef = << >> THEN b = 100
  ELSE LET last == lastBrightnessRef[Len(lastBrightnessRef)]
       IN IF mode = "idles" THEN b = last
          ELSE b = IF last = 110 THEN 100 ELSE 110

\* what the camera may show next: the frames out of character form one run
PxFrameBudget(b, mode) ==
  IF ~tracksLive THEN b = StoppedBrightness /\ quiet' = quiet
  ELSE /\ b \in Brightness
       /\ IF InCharacter(b, mode)
          THEN quiet' = IF quiet < MaxQuiet THEN 0 ELSE quiet
          ELSE quiet > 0 /\ quiet' = quiet - 1

PxEv(op, from) == [op |-> op, from |-> from]

\* initCamera up to its first await
initCamera ==
  /\ pxStep = "init" /\ ~loading /\ closureStep = pxStep
  /\ loading' = TRUE
  /\ pxError' = ""
  /\ pxEv' = PxEv("initCamera", pxStep)
  /\ UNCHANGED <<pxStep, cameraReady, blinkCountRef, smileCountRef,
                 turnCountRef, lastBrightnessRef, tracksLive, closureStep,
                 rafPending, blinkCooldown, timeoutArmed, pending, user,
                 quiet, stale>>
  /\ UNCHANGED <<fmvars, fn, fa, td, rd, lo, ch, sf>>

\* getUserMedia and play() resolved
InitCameraOk ==
  /\ pxStep = "init" /\ loading
  /\ cameraReady' = TRUE
  /\ pxStep' = "ready"
  /\ loading' = FALSE
  /\ tracksLive' = TRUE
  /\ pxEv' = PxEv("cameraOk", pxStep)
  /\ UNCHANGED <<pxError, blinkCountRef, smileCountRef, turnCountRef,
                 lastBrightnessRef, closureStep, rafPending, blinkCooldown,
                 timeoutArmed, pending, user, quiet,
                 stale>>
  /\ UNCHANGED <<fmvars, fn, fa, td, rd, lo, ch, sf>>

\* getUserMedia or play() rejected: catch branch
InitCameraFail ==
  /\ pxStep = "init" /\ loading
  /\ loading' = FALSE
  /\ pxError' = "camera"
  /\ pxEv' = PxEv("cameraFail", pxStep)
  /\ UNCHANGED <<pxStep, cameraReady, blinkCountRef, smileCountRef,
                 turnCountRef, lastBrightnessRef, tracksLive, closureStep,
                 rafPending, blinkCooldown, timeoutArmed, pending, user,
                 quiet, stale>>
  /\ UNCHANGED <<fmvars, fn, fa, td, rd, lo, ch, sf>>

\* the button shown once 'ready' has been rendered
startLivenessCheck ==
  /\ pxStep = "ready" /\ cameraReady /\ closureStep = pxStep
  /\ pxStep' = "blink"
  /\ blinkCountRef' = 0
  /\ smileCountRef' = 0
  /\ turnCountRef' = 0
  /\ lastBrightnessRef' = << >>
  /\ pxEv' = PxEv("start", pxStep)
  /\ UNCHANGED <<loading, pxError, cameraReady, tracksLive, closureStep,
                 rafPending, blinkCooldown, timeoutArmed, pending, user,
                 quiet, stale>>
  /\ UNCHANGED <<fmvars, fn, fa, td, rd, lo, ch, sf>>

\* completeLiveness up to its await: setStep('verifying'), tracks stopped,
\* the request sent
completeLiveness(via) ==
  /\ Len(pending) < MaxInflight
  /\ pxStep' = "verifying"
  /\ tracksLive' = FALSE
  /\ pending' = Append(pending, [livenessScore |-> LIVENESS_SCORE,
                                 via           |-> via,
                                 blinks        |-> blinkCountRef])

\* one call of detect in a closure that captured cstep, with its cooldown
DetectBody(cstep, cooldown, b) ==
  LET hist        == PushBrightness(lastBrightnessRef, b)
      movement    == analyzeFrame(hist)
      blinkHit    == cstep = "blink" /\ ~cooldown /\ BlinkMoved(movement)
      smileHit    == cstep = "smile" /\ SmileMoved(movement)
      turnHit     == cstep = "turn" /\ TurnMoved(movement)
      blinks      == IF blinkHit THEN blinkCountRef + 1 ELSE blinkCountRef
      smiles      == IF smileHit THEN smileCountRef + 1 ELSE smileCountRef
      turns       == IF turnHit THEN turnCountRef + 1 ELSE turnCountRef
      blinkDone   == blinkHit /\ blinks >= BLINKS_REQUIRED
      smileDone   == smileHit /\ smiles >= SMILE_FRAMES
      turnDone    == turnHit /\ turns >= TURN_FRAMES
  IN /\ lastBrightnessRef' = hist
     /\ blinkCountRef' = blinks
     /\ smileCountRef' = IF smileDone THEN 0 ELSE smiles
     /\ turnCountRef' = turns
     /\ blinkCooldown' = (cooldown \/ blinkHit)
     /\ IF turnDone
        THEN /\ completeLiveness("detect")
             /\ rafPending' = FALSE
        ELSE /\ pxStep' = IF blinkDone THEN "smile"
                          ELSE IF smileDone THEN "turn" ELSE pxStep
             /\ rafPending' = TRUE
             /\ UNCHANGED <<tracksLive, pending>>

\* requestAnimationFrame(detect) of the running effect
detect(b) ==
  /\ rafPending /\ closureStep \in PxChallengeSteps
  /\ PxFrameBudget(b, user)
  /\ IF closureStep = pxStep THEN stale' = stale
     ELSE stale < MaxStale /\ stale' = stale + 1
  /\ DetectBody(closureStep, blinkCooldown, b)
  /\ pxEv' = PxEv("detect", closureStep)
  /\ UNCHANGED <<loading, pxError, cameraReady, closureStep, timeoutArmed,
                 user>>
  /\ UNCHANGED <<fmvars, fn, fa, td, rd, lo, ch, sf>>

\* the render after setStep: cleanup of the old effect, then the effect
\* again: a first detect() and a new timer when the step is a challenge
DetectionEffect(b) ==
  /\ closureStep # pxStep
  /\ closureStep' = pxStep
  /\ stale' = 0
  /\ IF pxStep \in PxChallengeSteps
     THEN /\ user' \in IF tracksLive THEN {"acts", "idles"} ELSE {"idles"}
          /\ PxFrameBudget(b, user')
          /\ DetectBody(pxStep, FALSE, b)
          /\ timeoutArmed' = TRUE
     ELSE /\ b = StoppedBrightness
          /\ user' = "idles"
          /\ rafPending' = FALSE
          /\ blinkCooldown' = FALSE
          /\ timeoutArmed' = FALSE
          /\ UNCHANGED <<pxStep, blinkCountRef, smileCountRef, turnCountRef,
                         lastBrightnessRef, tracksLive, pending, quiet>>
  /\ pxEv' = PxEv("effect", pxStep)
  /\ UNCHANGED <<loading, pxError, cameraReady>>
  /\ UNCHANGED <<fmvars, fn, fa, td, rd, lo, ch, sf>>

\* setTimeout(() => { blinkCooldown = false }, 500)
CooldownEnd ==
  /\ blinkCooldown
  /\ blinkCooldown' = FALSE
  /\ pxEv' = PxEv("cooldownEnd", closureStep)
  /\ UNCHANGED <<pxStep, loading, pxError, cameraReady, blinkCountRef,
                 smileCountRef, turnCountRef, lastBrightnessRef, tracksLive,
                 closureStep, rafPending, timeoutArmed, pending, user, quiet,
                 stale>>
  /\ UNCHANGED <<fmvars, fn, fa, td, rd, lo, ch, sf>>

\* mutant: the timer leaves the step where it is
TimeoutNext_Stay(s) == s

\* where the 15 s timer of a step takes the session
TimeoutNext(s) ==
  CASE s = "blink" -> "smile"
    [] s = "smile" -> "turn"
    [] s = "turn"  -> "verifying"
    [] OTHER       -> s

\* "Timeout - auto-pass after 15 seconds per step (fallback)"
Timeout ==
  /\ timeoutArmed /\ user = "idles"
  /\ timeoutArmed' = FALSE
  /\ IF TimeoutNext(closureStep) = "verifying"
     THEN completeLiveness("timeout")
     ELSE /\ pxStep' = TimeoutNext(closureStep)
          /\ UNCHANGED <<tracksLive, pending>>
  /\ pxEv' = PxEv("timeout", closureStep)
  /\ UNCHANGED <<loading, pxError, cameraReady, blinkCountRef, smileCountRef,
                 turnCountRef, lastBrightnessRef, closureStep, rafPending,
                 blinkCooldown, user, quiet, stale>>
  /\ UNCHANGED <<fmvars, fn, fa, td, rd, lo, ch, sf>>

\* data.success && data.passed
PxFetchOk(i) ==
  /\ i \in 1..Len(pending)
  /\ pxStep' = "success"
  /\ pending' = RemoveAt(pending, i)
  /\ pxEv' = PxEv("fetchOk", pending[i].via)
  /\ UNCHANGED <<loading, pxError, cameraReady, blinkCountRef, smileCountRef,
                 turnCountRef, lastBrightnessRef, tracksLive, closureStep,
                 rafPending, blinkCooldown, timeoutArmed, user, quiet,
                 stale>>
  /\ UNCHANGED <<fmvars, fn, fa, td, rd, lo, ch, sf>>

\* the backend refused, or fetch rejected: back to 'ready'
PxFetchFail(i) ==
  /\ i \in 1..Len(pending)
  /\ pxError' = "failed"
  /\ pxStep' = "ready"
  /\ pending' = RemoveAt(pending, i)
  /\ pxEv' = PxEv("fetchFail", pending[i].via)
  /\ UNCHANGED <<loading, cameraReady, blinkCountRef, smileCountRef,
                 turnCountRef, lastBrightnessRef, tracksLive, closureStep,
                 rafPending, blinkCooldown, timeoutArmed, user, quiet,
                 stale>>
  /\ UNCHANGED <<fmvars, fn, fa, td, rd, lo, ch, sf>>

PxFrames == Brightness \cup {StoppedBrightness}

NextPx ==
  \/ initCamera
  \/ InitCameraOk
  \/ InitCameraFail
  \/ startLivenessCheck
  \/ \E b \in PxFrames : detect(b)
  \/ \E b \in PxFrames : DetectionEffect(b)
  \/ CooldownEnd
  \/ Timeout
  \/ \E i \in 1..MaxInflight : PxFetchOk(i)
  \/ \E i \in 1..MaxInflight : PxFetchFail(i)

\* the brightness component alone, the FaceMesh component just mounted
InitPx ==
  /\ Mount([i \in 2..Len(ALL_CHALLENGES) |-> i], FALSE)
  /\ PxMount
  /\ FnMount
  /\ FaMount
  /\ TdMount
  /\ RdMount
  /\ LoMount
  /\ ChMount
  /\ SfMount

SpecPx == InitPx /\ [][NextPx]_vars

(***************************************************************************)
(* The routines on their own.  A behaviour of SpecFn applies one routine   *)
(* to inputs drawn by InitFn: the scorer and the score gate of              *)
(* verifyLiveness to a metrics history, the two eye-openness routines to   *)
(* the landmarks of an eye, the score of submit to its three checks.       *)
(***************************************************************************)
\* metrics of the frames of a history: avgMovement below the band, zero,
\* inside the band, above it; the eyes open or closed
SampleMovements == {0, 1, 20, 600}
SampleEars == {30, 10}
Samples ==
  { [ear |-> e, mouth |-> 20, turn |-> 0, movement |-> mv] :
      e \in SampleEars, mv \in SampleMovements }

\* n1 frames of metrics a followed by n2 frames of metrics b
History(n1, a, n2, b) == [k \in 1..(n1 + n2) |-> IF k <= n1 THEN a ELSE b]

\* the component when the hold of its last challenge has just been reached,
\* with the given history behind it
AllCompleted(history) ==
  /\ step = "challenge"
  /\ stepRef = "challenge"
  /\ challengeIndex = Len(ALL_CHALLENGES) - 1
  /\ challengeIndexRef = Len(ALL_CHALLENGES) - 1
  /\ faceDetected = TRUE
  /\ faceValid = TRUE
  /\ error = ""
  /\ holdFramesRef = 0
  /\ challengesRef = ALL_CHALLENGES
  /\ metricsHistoryRef = history
  /\ baselineRef = IF Len(history) < BASELINE_FRAMES THEN << >>
                   ELSE LET m == history[BASELINE_FRAMES]
                        IN << [ear |-> m.ear, mouth |-> m.mouth,
                               turn |-> m.turn] >>
  /\ lastLandmarksRef = << Face("rest", 0, "ok") >>
  /\ spoofScoreRef = calcSpoofScore(history)
  /\ camera = "on"
  /\ inflight = << >>
  /\ completed = [i \in 1..Len(ALL_CHALLENGES) |->
                    [i |-> i - 1, hold |-> HOLD_REQUIRED]]
  /\ verified = << >>
  /\ slack = 0
  /\ lag = 0
  /\ burst = "none"
  /\ idle = 0
  /\ ev = Ev("history", "-", "-")

\* the component at the start of its first challenge, blink, calibrated on
\* frames at rest
Calibrated(sl) ==
  LET rest    == Face("rest", 0, "ok")
      m       == Metrics(rest, << rest >>)
      history == History(BASELINE_FRAMES, m, 0, m)
  IN  /\ step = "challenge"
      /\ stepRef = "challenge"
      /\ challengeIndex = 0
      /\ challengeIndexRef = 0
      /\ faceDetected = TRUE
      /\ faceValid = TRUE
      /\ error = ""
      /\ holdFramesRef = 0
      /\ challengesRef = ALL_CHALLENGES
      /\ metricsHistoryRef = history
      /\ baselineRef = << [ear |-> m.ear, mouth |-> m.mouth, turn |-> m.turn] >>
      /\ lastLandmarksRef = << rest >>
      /\ spoofScoreRef = calcSpoofScore(history)
      /\ camera = "on"
      /\ inflight = << >>
      /\ completed = << >>
      /\ verified = << >>
      /\ slack = sl
      /\ lag = 0
      /\ burst = "none"
      /\ idle = 0
      /\ ev = Ev("calibrated", "-", "-")

Unmounted == Mount([i \in 2..Len(ALL_CHALLENGES) |-> i], FALSE)

EyeLandmarks == { EyePoints(v1, v2, h) : v1 \in 0..3, v2 \in 0..3, h \in {0, 5, 10} }

\* earValues.current.push(avgEAR), then one shift beyond 60 values
PushEar(values, avgEAR) ==
  LET pushed == Append(values, avgEAR)
  IN IF Len(pushed) > EAR_VALUES_SIZE THEN Tail(pushed) ELSE pushed

\* earValues.current.slice(0, n).reduce((a, b) => a + b, 0)
RECURSIVE SumFirst(_, _)
SumFirst(values, n) ==
  IF n = 0 \/ values = << >> THEN 0
  ELSE Head(values) + SumFirst(Tail(values), n - 1)

\* avgEAR < threshold, threshold = baseline * 0.70, baseline = sum / 8
BelowThreshold(avgEAR, sum) ==
  avgEAR * 100 * CALIBRATION_FRAMES < sum * BLINK_DROP

\* avgEAR > baseline * 0.85
Recovered_Always(avgEAR, sum) == TRUE

Recovered(avgEAR, sum) ==
  avgEAR * 100 * CALIBRATION_FRAMES > sum * BLINK_RECOVER

\* eye openness of a frame: open, half closed, closed
EarLevels == {30, 23, 10}

Run(n, e) == [k \in 1..n |-> e]

\* a first run of frames, on which the detector calibrates, and three more
BlinkScripts ==
  { Run(a, e1) \o Run(b, e2) \o Run(c, e3) \o Run(d, e4) :
      a \in (MaxCalibration - 2)..MaxCalibration, e1 \in {30},
      b \in 0..MaxRun, e2 \in EarLevels \ {30},
      c \in 0..MaxRun, e3 \in EarLevels,
      d \in 0..1, e4 \in {10} }

\* start, as far as the blink detector: its tracking reset, blink first
BlinkStart ==
  /\ earValues = << >>
  /\ blinkState = "waiting"
  /\ blinkCount = 0
  /\ challengeComplete = FALSE
  /\ nextStepPending = FALSE
  /\ current = "blink"
  /\ faEv = [op |-> "start", avgEAR |-> 0, sum |-> 0, was |-> "waiting"]

\* the number of frames of good size after which the face is accepted
STABLE_FRAMES == 5

\* the component of part_001 once init has set the phase 'ready'
Loaded ==
  /\ phase = "ready"
  /\ faceOk = FALSE
  /\ readyToStart = FALSE
  /\ stableCount = 0
  /\ lastFace = "-"

\* a face-api component at its mount: the init effect has called init
LoopStart(c) ==
  /\ comp = c
  /\ alive = TRUE
  /\ run = "models"
  /\ orphans = 0
  /\ loops = [i \in 1..MaxLoops |-> "none"]
  /\ animRef = 0
  /\ tracks = "none"
  /\ loEv = "mount"

\* a component just mounted, its initialisation at its first await
Mounting(v) ==
  /\ variant = v
  /\ mounted = TRUE
  /\ initAt = IF v = "FaceMesh" THEN "getUserMedia" ELSE "models"
  /\ stream = "none"
  /\ srcObject = FALSE
  /\ cameraRef = "null"
  /\ streamRef = FALSE

InitFn ==
  /\ PxMount
  /\ \/ /\ routine = "calcSpoofScore"
        /\ \E n1 \in 0..MaxSamples : \E n2 \in 0..(MaxSamples - n1) :
             \E a \in Samples : \E b \in Samples :
               AllCompleted(History(n1, a, n2, b))
        /\ eyePoints = Eye("rest")
        /\ livenessScore = NoScore(FALSE, FALSE, 0)
        /\ FaMount
     \/ /\ routine \in {"calcEAR", "calculateEAR"}
        /\ Unmounted
        /\ eyePoints \in EyeLandmarks
        /\ livenessScore = NoScore(FALSE, FALSE, 0)
        /\ FaMount
     \/ /\ routine = "submit"
        /\ Unmounted
        /\ eyePoints = Eye("rest")
        /\ \E nm \in BOOLEAN : \E ht \in BOOLEAN : \E bc \in 0..MaxBlinks :
             livenessScore = NoScore(nm, ht, bc)
        /\ FaMount
     \/ /\ routine \in {"processChallenge", "onFaceResults",
                        "validateFaceGeometry"}
        /\ \E sl \in 0..MaxSlack : Calibrated(sl)
        /\ eyePoints = Eye("rest")
        /\ livenessScore = NoScore(FALSE, FALSE, 0)
        /\ FaMount
     \/ /\ routine = "blink"
        /\ Unmounted
        /\ eyePoints = Eye("rest")
        /\ livenessScore = NoScore(FALSE, FALSE, 0)
        /\ BlinkStart
        /\ frames \in BlinkScripts
     \/ /\ routine \in {"init", "nextStep", "start", "loop"}
        /\ Unmounted
        /\ eyePoints = Eye("rest")
        /\ livenessScore = NoScore(FALSE, FALSE, 0)
        /\ FaMount
  /\ earValue = [by |-> "-", ear |-> NaN]
  /\ IF routine = "init"
     THEN \E v \in {"FaceMesh", "face-api"} : Mounting(v)
     ELSE TdMount
  /\ IF routine = "start" THEN Loaded ELSE RdMount
  /\ IF routine = "loop"
     THEN \E c \in {"part_002", "face-api"} : LoopStart(c)
     ELSE LoMount
  /\ ChMount
  /\ SfMount

\* a scorer that consumes what it reads
Rescore_Consuming ==
  /\ routine = "calcSpoofScore"
  /\ step = "challenge"
  /\ metricsHistoryRef # << >>
  /\ metricsHistoryRef' = Tail(metricsHistoryRef)
  /\ spoofScoreRef' = calcSpoofScore(metricsHistoryRef')
  /\ ev' = Ev("score", "-", "-")
  /\ UNCHANGED <<step, stepRef, challengeIndex, challengeIndexRef,
                 faceDetected, faceValid, error, holdFramesRef, challengesRef,
                 baselineRef, lastLandmarksRef, camera,
                 inflight, completed, verified, env>>
  /\ UNCHANGED <<px, fn, fa, td, rd, lo, ch, sf>>

\* spoofScoreRef.current = calcSpoofScore(), once more on the same history
Rescore ==
  /\ routine = "calcSpoofScore"
  /\ step = "challenge"
  /\ spoofScoreRef' = calcSpoofScore(metricsHistoryRef)
  /\ ev' = Ev("score", "-", "-")
  /\ UNCHANGED <<step, stepRef, challengeIndex, challengeIndexRef,
                 faceDetected, faceValid, error, holdFramesRef, challengesRef,
                 metricsHistoryRef, baselineRef, lastLandmarksRef, camera,
                 inflight, completed, verified, env>>
  /\ UNCHANGED <<px, fn, fa, td, rd, lo, ch, sf>>

\* verifyLiveness, called for the completed run, up to its await
verifyLiveness ==
  /\ routine = "calcSpoofScore"
  /\ step = "challenge"
  /\ VerifyLiveness(spoofScoreRef, completed)
  /\ ev' = Ev("verify", "-", "-")
  /\ UNCHANGED <<stepRef, challengeIndex, challengeIndexRef, faceDetected,
                 faceValid, holdFramesRef, challengesRef, metricsHistoryRef,
                 baselineRef, lastLandmarksRef, spoofScoreRef, camera,
                 completed, verified, env>>
  /\ UNCHANGED <<px, fn, fa, td, rd, lo, ch, sf>>

\* calcEAR(landmarks, LEFT_EYE) on a face with the drawn eye
ApplyCalcEAR ==
  /\ routine = "calcEAR"
  /\ earValue.by = "-"
  /\ LET lm == [Face("rest", 0, "ok") EXCEPT !.eyeL = eyePoints]
     IN earValue' = [by |-> "calcEAR", ear |-> calcEAR(lm, "LEFT_EYE")]
  /\ UNCHANGED <<eyePoints, livenessScore, routine>>
  /\ UNCHANGED <<fmvars, px, fa, td, rd, lo, ch, sf>>

\* calculateEAR(eyePoints) of the face-api variant
ApplyCalculateEAR ==
  /\ routine = "calculateEAR"
  /\ earValue.by = "-"
  /\ earValue' = [by |-> "calculateEAR", ear |-> calculateEAR(eyePoints)]
  /\ UNCHANGED <<eyePoints, livenessScore, routine>>
  /\ UNCHANGED <<fmvars, px, fa, td, rd, lo, ch, sf>>

\* the contributions submit adds up: the base and the three bonuses, x100
BASE_SCORE == 50
MOVEMENT_BONUS == 25
TIMING_BONUS == 25
BLINK_BONUS == 10

SubmitSum(nm, ht, bc) ==
  BASE_SCORE + (IF nm THEN MOVEMENT_BONUS ELSE 0)
             + (IF ht THEN TIMING_BONUS ELSE 0)
             + (IF bc >= 1 THEN BLINK_BONUS ELSE 0)

\* the score computed at the head of submit
SubmitScore ==
  /\ routine = "submit"
  /\ livenessScore.by = "-"
  /\ LET sum == SubmitSum(livenessScore.naturalMovement,
                          livenessScore.humanTiming,
                          livenessScore.blinkCount)
     IN livenessScore' = [livenessScore EXCEPT !.by = "submit",
                                               !.sum = sum,
                                               !.score = Min(100, sum)]
  /\ UNCHANGED <<eyePoints, earValue, routine>>
  /\ UNCHANGED <<fmvars, px, fa, td, rd, lo, ch, sf>>

\* detect on the next frame, as far as its blink branch: the phase is
\* 'challenge' and the list of challenges is not empty
DetectBlink ==
  /\ routine = "blink"
  /\ frames # << >>
  /\ frames' = Tail(frames)
  /\ LET avgEAR == Head(frames)
         values == PushEar(earValues, avgEAR)
         sum    == SumFirst(values, CALIBRATION_FRAMES)
         judged == Len(values) >= CALIBRATION_FRAMES
         closes == /\ judged /\ blinkState = "waiting"
                   /\ BelowThreshold(avgEAR, sum)
         opens  == /\ judged /\ blinkState = "closed"
                   /\ Recovered(avgEAR, sum)
     IN  IF challengeComplete \/ current # "blink"
         THEN /\ faEv' = [op |-> "skip", avgEAR |-> avgEAR, sum |-> 0,
                          was |-> blinkState]
              /\ UNCHANGED <<earValues, blinkState, blinkCount,
                             challengeComplete, nextStepPending>>
         ELSE /\ earValues' = values
              /\ blinkState' = IF closes THEN "closed"
                               ELSE IF opens THEN "done" ELSE blinkState
              /\ blinkCount' = IF opens THEN blinkCount + 1 ELSE blinkCount
              /\ challengeComplete' = opens
              /\ nextStepPending' = (nextStepPending \/ opens)
              /\ faEv' = [op |-> "blink", avgEAR |-> avgEAR,
                          sum |-> IF judged THEN sum ELSE 0,
                          was |-> blinkState]
  /\ UNCHANGED current
  /\ UNCHANGED <<fmvars, px, fn, td, rd, lo, ch, sf>>

\* nextStep, run by the timer of a completed blink: the tracking is reset
\* and the run moves to what follows the blink challenge
BlinkNextStep ==
  /\ routine = "blink"
  /\ nextStepPending
  /\ nextStepPending' = FALSE
  /\ challengeComplete' = FALSE
  /\ earValues' = << >>
  /\ blinkState' = "waiting"
  /\ current' = "next"
  /\ faEv' = [op |-> "nextStep", avgEAR |-> 0, sum |-> 0, was |-> blinkState]
  /\ UNCHANGED <<blinkCount, frames>>
  /\ UNCHANGED <<fmvars, px, fn, td, rd, lo, ch, sf>>

\* landmark arrays MediaPipe does not produce: one without the points the
\* handler indexes, one whose coordinates are all NaN
MalformedKinds == {"short", "NaN"}
MalformedLandmarks(kind) == [malformed |-> kind]
NaNMetrics == [ear |-> NaN, mouth |-> NaN, turn |-> NaN, movement |-> NaN]

\* onFaceResults on a valid frame during the blink challenge
ProcessFrame(f) ==
  /\ routine \in {"processChallenge", "onFaceResults", "validateFaceGeometry"}
  /\ ev.face \notin MalformedKinds
  /\ ev.op # "geometry"
  /\ FrameValid(f)

\* faces at rest of every geometry: height over width and nose offset at
\* and beyond the limits of the validator, the eyes above or below the
\* nose, the variance of z at and below its minimum; and, which the
\* validator does not read, the width of the face in the frame and the
\* distance of the eyes over the width of the face, all x100 (z x100000)
GeometryLandmarks ==
  { [Face("rest", 0, "ok") EXCEPT !.ratio = r, !.turn = t, !.eyesAbove = a,
                                  !.zvar = z, !.width = w, !.eyeRatio = e] :
      r \in {79, 80, 250, 251}, t \in {0, 40, 41},
      a \in BOOLEAN, z \in {1, 9, 10},
      w \in {1, 50}, e \in {40, 100} }

\* onFaceResults on a face of the drawn geometry, which ends the behaviour
GeometryFrame(lm) ==
  /\ routine = "validateFaceGeometry"
  /\ ev.op # "geometry"
  /\ IF validateFaceGeometry(lm)
     THEN HandleValid(<< lm >>, "geometry")
     ELSE HandleInvalid(<< lm >>, "geometry")
  /\ UNCHANGED env
  /\ UNCHANGED sf

\* onFaceResults on a malformed landmark array.  A short array: after
\* setFaceDetected(true), validateFaceGeometry reads .x of undefined and the
\* TypeError leaves the handler, which nothing catches.  NaN coordinates:
\* every comparison of validateFaceGeometry is false, so the frame is valid;
\* its metrics are NaN, no challenge predicate holds and the hold decays
\* (applied while the history is too short for the scorer to read the NaN)
MalformedFrame(kind) ==
  /\ routine = "onFaceResults"
  /\ ev.face \notin MalformedKinds
  /\ Len(metricsHistoryRef) + 1 < SCORE_MIN_HISTORY
  /\ faceDetected' = TRUE
  /\ IF kind = "short"
     THEN /\ ev' = EvFrame(kind, "TypeError", holdFramesRef)
          /\ UNCHANGED <<faceValid, metricsHistoryRef, spoofScoreRef,
                         baselineRef, lastLandmarksRef, holdFramesRef>>
     ELSE LET history  == PushMetrics(metricsHistoryRef, NaNMetrics)
              baseline == NextBaseline(history, baselineRef, NaNMetrics)
          IN  /\ faceValid' = TRUE
              /\ metricsHistoryRef' = history
              /\ spoofScoreRef' = calcSpoofScore(history)
              /\ baselineRef' = baseline
              /\ lastLandmarksRef' = << MalformedLandmarks(kind) >>
              /\ holdFramesRef' = IF ChallengeActive(stepRef, baseline)
                                  THEN HoldDecay(holdFramesRef)
                                  ELSE holdFramesRef
              /\ ev' = EvFrame(kind, "decay", holdFramesRef)
  /\ UNCHANGED <<step, stepRef, challengeIndex, challengeIndexRef, error,
                 challengesRef, camera, inflight, completed, verified, env>>
  /\ UNCHANGED <<px, fn, fa, td, rd, lo, ch, sf>>

\* detect of part_001 on a frame without a face, or with a face whose box
\* is or is not of good size
detectReadiness(face) ==
  /\ routine = "start"
  /\ phase \in {"ready", "challenge"}
  /\ face = "good" => stableCount < MaxStable
  /\ lastFace' = face
  /\ stableCount' = IF face = "good" THEN stableCount + 1 ELSE 0
  /\ faceOk' = IF face = "good"
               THEN faceOk \/ stableCount + 1 > STABLE_FRAMES
               ELSE FALSE
  /\ readyToStart' = IF face = "good"
                     THEN readyToStart \/ stableCount + 1 > STABLE_FRAMES
                     ELSE readyToStart
  /\ phase' = phase
  /\ UNCHANGED <<fmvars, px, fn, fa, td, lo, ch, sf>>

\* start of part_001, the handler of the Start button
start ==
  /\ routine = "start"
  /\ phase = "ready"
  /\ phase' = IF readyToStart THEN "challenge" ELSE phase
  /\ UNCHANGED <<faceOk, readyToStart, stableCount, lastFace>>
  /\ UNCHANGED <<fmvars, px, fn, fa, td, lo, ch, sf>>

\* animRef.current = requestAnimationFrame(detect), by a loop not yet
\* followed or by loop i itself
Schedule(i) ==
  /\ loops' = [loops EXCEPT ![i] = "scheduled"]
  /\ animRef' = i

\* the cleanup of the init effect: mounted = false for the run of init it
\* belongs to, cancelAnimationFrame(animRef.current), which ends a loop
\* only while its request is pending, and the tracks are stopped.  A run
\* of init awaiting play() has passed its last test of mounted
Cleanup(next) ==
  /\ run = "play" => orphans < MaxOrphans
  /\ orphans' = IF run = "play" THEN orphans + 1 ELSE orphans
  /\ run' = next
  /\ loops' = IF animRef # 0 /\ loops[animRef] = "scheduled"
              THEN [loops EXCEPT ![animRef] = "none"] ELSE loops
  /\ tracks' = IF tracks = "live" THEN "stopped" ELSE tracks
  /\ animRef' = animRef

\* init: the models are loaded, the run is still the mounted one
LoModels ==
  /\ routine = "loop"
  /\ run = "models"
  /\ run' = "getUserMedia"
  /\ loEv' = "models"
  /\ UNCHANGED <<comp, alive, orphans, loops, animRef, tracks>>
  /\ UNCHANGED <<fmvars, px, fn, fa, td, rd, ch, sf>>

\* init: getUserMedia resolves for the mounted run, streamRef is set
LoStream ==
  /\ routine = "loop"
  /\ run = "getUserMedia"
  /\ run' = "play"
  /\ tracks' = "live"
  /\ loEv' = "stream"
  /\ UNCHANGED <<comp, alive, orphans, loops, animRef>>
  /\ UNCHANGED <<fmvars, px, fn, fa, td, rd, ch, sf>>

\* init: play() resolves, setPhase('ready') and the first
\* requestAnimationFrame(detect) of a new loop
LoPlay ==
  /\ routine = "loop"
  /\ run = "play"
  /\ run' = "done"
  /\ \E i \in 1..MaxLoops : loops[i] = "none" /\ Schedule(i)
  /\ loEv' = "loop"
  /\ UNCHANGED <<comp, alive, orphans, tracks>>
  /\ UNCHANGED <<fmvars, px, fn, fa, td, rd, ch, sf>>

\* init: an awaited call rejects, catch
LoInitFail ==
  /\ routine = "loop"
  /\ run \in {"models", "getUserMedia", "play"}
  /\ run' = "failed"
  /\ loEv' = "initFail"
  /\ UNCHANGED <<comp, alive, orphans, loops, animRef, tracks>>
  /\ UNCHANGED <<fmvars, px, fn, fa, td, rd, ch, sf>>

\* play() of an earlier run of init settles after the cleanup: resolved,
\* the run goes on to requestAnimationFrame(detect); rejected, to catch
LoOrphanPlay ==
  /\ routine = "loop"
  /\ orphans > 0
  /\ orphans' = orphans - 1
  /\ \E resolved \in BOOLEAN :
       IF resolved
       THEN /\ \E i \in 1..MaxLoops : loops[i] = "none" /\ Schedule(i)
            /\ loEv' = "loop"
       ELSE /\ UNCHANGED <<loops, animRef>>
            /\ loEv' = "initFail"
  /\ UNCHANGED <<comp, alive, run, tracks>>
  /\ UNCHANGED <<fmvars, px, fn, fa, td, rd, ch, sf>>

\* the animation frame of loop i: detect is called.  Without a video ready
\* (videoRef.current is null once unmounted) it reschedules itself at once,
\* else it awaits the model
LoDetect(i) ==
  /\ routine = "loop"
  /\ loops[i] = "scheduled"
  /\ \E ready \in (IF alive THEN BOOLEAN ELSE {FALSE}) :
       IF ready
       THEN loops' = [loops EXCEPT ![i] = "awaiting"] /\ animRef' = animRef
       ELSE Schedule(i)
  /\ loEv' = "detect"
  /\ UNCHANGED <<comp, alive, run, orphans, tracks>>
  /\ UNCHANGED <<fmvars, px, fn, fa, td, rd, ch, sf>>

\* the model answers the detect call of loop i: the frame is handled, the
\* refs of the session are written, and detect reschedules itself
LoFrame(i) ==
  /\ routine = "loop"
  /\ loops[i] = "awaiting"
  /\ Schedule(i)
  /\ loEv' = "frame"
  /\ UNCHANGED <<comp, alive, run, orphans, tracks>>
  /\ UNCHANGED <<fmvars, px, fn, fa, td, rd, ch, sf>>

\* a render of the face-api component of LivenessStep.tsx: its challenges
\* array is new, so detect is new, so the init effect, whose dependency is
\* detect, runs its cleanup and calls init again
LoRerun ==
  /\ routine = "loop"
  /\ comp = "face-api"
  /\ alive
  /\ Cleanup("models")
  /\ loEv' = "rerun"
  /\ UNCHANGED <<comp, alive>>
  /\ UNCHANGED <<fmvars, px, fn, fa, td, rd, ch, sf>>

\* the component is unmounted: the cleanup of the init effect runs
LoUnmount ==
  /\ routine = "loop"
  /\ alive
  /\ alive' = FALSE
  /\ Cleanup("-")
  /\ loEv' = "unmount"
  /\ UNCHANGED comp
  /\ UNCHANGED <<fmvars, px, fn, fa, td, rd, ch, sf>>

\* the score submit writes into its request, x100
SUBMIT_SCORE == 90

\* the body of the request of submit
SubmitBody(selfie) ==
  [ verificationId |-> "verificationId",
    livenessScore  |-> SUBMIT_SCORE,
    selfieBase64   |-> selfie ]

\* nextStep of the blendshape component at its last challenge:
\* submit(capture()) up to its await
NextStepSubmit ==
  /\ routine = "nextStep"
  /\ inflight = << >>
  /\ verified = << >>
  /\ \E selfie \in {"", "jpeg"} : inflight' = << SubmitBody(selfie) >>
  /\ holdFramesRef' = 0
  /\ ev' = Ev("submit", "-", "-")
  /\ UNCHANGED <<step, stepRef, challengeIndex, challengeIndexRef,
                 faceDetected, faceValid, error, challengesRef,
                 metricsHistoryRef, baselineRef, lastLandmarksRef,
                 spoofScoreRef, camera, completed, verified, env>>
  /\ UNCHANGED <<px, fn, fa, td, rd, lo, ch, sf>>

\* setStep and setError of initMediaPipe, which an unmounted component ignores
InitSetStep(s, e) ==
  /\ step' = IF mounted THEN s ELSE step
  /\ error' = IF mounted THEN e ELSE error
  /\ UNCHANGED <<stepRef, challengeIndex, challengeIndexRef, faceDetected,
                 faceValid, holdFramesRef, challengesRef, metricsHistoryRef,
                 baselineRef, lastLandmarksRef, spoofScoreRef, camera,
                 inflight, completed, verified, env, ev>>
  /\ UNCHANGED <<px, fn, fa, rd, lo, ch, sf>>

\* initMediaPipe: getUserMedia resolves; videoRef.current is the element
\* while the component is mounted and null afterwards
MpStreamOk ==
  /\ routine = "init" /\ variant = "FaceMesh"
  /\ initAt = "getUserMedia"
  /\ stream' = "live"
  /\ srcObject' = mounted
  /\ initAt' = IF mounted THEN "play" ELSE "abandoned"
  /\ UNCHANGED <<variant, mounted, cameraRef, streamRef>>
  /\ UNCHANGED <<fmvars, px, fn, fa, rd, lo, ch, sf>>

\* initMediaPipe: play resolves, the Camera is created and start() awaited
MpPlayOk ==
  /\ routine = "init" /\ variant = "FaceMesh"
  /\ initAt = "play"
  /\ cameraRef' = "created"
  /\ initAt' = "start"
  /\ UNCHANGED <<variant, mounted, stream, srcObject, streamRef>>
  /\ UNCHANGED <<fmvars, px, fn, fa, rd, lo, ch, sf>>

\* initMediaPipe: start() resolves, setStep('ready')
MpStartOk ==
  /\ routine = "init" /\ variant = "FaceMesh"
  /\ initAt = "start"
  /\ cameraRef' = IF cameraRef = "stopped" THEN "stopped" ELSE "started"
  /\ initAt' = "ready"
  /\ InitSetStep("ready", error)
  /\ UNCHANGED <<variant, mounted, stream, srcObject, streamRef>>

\* initMediaPipe: the awaited call rejects, catch sets 'failed'
MpInitFail ==
  /\ routine = "init" /\ variant = "FaceMesh"
  /\ initAt \in {"getUserMedia", "play", "start"}
  /\ initAt' = "failed"
  /\ InitSetStep("failed", "init")
  /\ UNCHANGED <<variant, mounted, stream, srcObject, cameraRef, streamRef>>

\* the cleanup of the mount effect of the FaceMesh component.  The Camera,
\* if there is one, is stopped; whether that stops the tracks of the
\* stream is the library's affair.  The tracks of video.srcObject are
\* stopped if videoRef.current is still the element when the cleanup runs,
\* which depends on when React detaches the ref
MpUnmount ==
  /\ routine = "init" /\ variant = "FaceMesh"
  /\ mounted
  /\ mounted' = FALSE
  /\ cameraRef' = IF cameraRef = "null" THEN "null" ELSE "stopped"
  /\ \E attached \in BOOLEAN : \E byCamera \in BOOLEAN :
       stream' = IF /\ stream = "live" /\ srcObject
                    /\ attached \/ (byCamera /\ cameraRef # "null")
                 THEN "stopped" ELSE stream
  /\ UNCHANGED <<variant, initAt, srcObject, streamRef>>
  /\ UNCHANGED <<fmvars, px, fn, fa, rd, lo, ch, sf>>

\* init of the face-api variant: both models are loaded
FaModelsLoaded ==
  /\ routine = "init" /\ variant = "face-api"
  /\ initAt = "models"
  /\ initAt' = IF mounted THEN "getUserMedia" ELSE "abandoned"
  /\ UNCHANGED <<variant, mounted, stream, srcObject, cameraRef, streamRef>>
  /\ UNCHANGED <<fmvars, px, fn, fa, rd, lo, ch, sf>>

\* init of the face-api variant: getUserMedia resolves
FaStreamOk ==
  /\ routine = "init" /\ variant = "face-api"
  /\ initAt = "getUserMedia"
  /\ IF mounted
     THEN /\ stream' = "live"
          /\ streamRef' = TRUE
          /\ srcObject' = TRUE
          /\ initAt' = "play"
     ELSE /\ stream' = "stopped"
          /\ initAt' = "abandoned"
          /\ UNCHANGED <<streamRef, srcObject>>
  /\ UNCHANGED <<variant, mounted, cameraRef>>
  /\ UNCHANGED <<fmvars, px, fn, fa, rd, lo, ch, sf>>

\* init of the face-api variant: play resolves, setPhase('ready')
FaPlayOk ==
  /\ routine = "init" /\ variant = "face-api"
  /\ initAt = "play"
  /\ initAt' = "ready"
  /\ UNCHANGED <<variant, mounted, stream, srcObject, cameraRef, streamRef>>
  /\ UNCHANGED <<fmvars, px, fn, fa, rd, lo, ch, sf>>

\* init of the face-api variant: the awaited call rejects, catch
FaInitFail ==
  /\ routine = "init" /\ variant = "face-api"
  /\ initAt \in {"models", "getUserMedia", "play"}
  /\ initAt' = "failed"
  /\ UNCHANGED <<variant, mounted, stream, srcObject, cameraRef, streamRef>>
  /\ UNCHANGED <<fmvars, px, fn, fa, rd, lo, ch, sf>>

\* the cleanup of the init effect of the face-api variant
FaUnmount ==
  /\ routine = "init" /\ variant = "face-api"
  /\ mounted
  /\ mounted' = FALSE
  /\ stream' = IF streamRef /\ stream = "live" THEN "stopped" ELSE stream
  /\ UNCHANGED <<variant, initAt, srcObject, cameraRef, streamRef>>
  /\ UNCHANGED <<fmvars, px, fn, fa, rd, lo, ch, sf>>

NextFn ==
  \/ Rescore
  \/ verifyLiveness
  \/ \E i \in 1..MaxInflight : FetchOk(i)
  \/ \E i \in 1..MaxInflight : FetchFail(i)
  \/ ApplyCalcEAR
  \/ ApplyCalculateEAR
  \/ SubmitScore
  \/ DetectBlink
  \/ BlinkNextStep
  \/ \E f \in Frames : ProcessFrame(f)
  \/ \E kind \in MalformedKinds : MalformedFrame(kind)
  \/ \E lm \in GeometryLandmarks : GeometryFrame(lm)
  \/ NextStepSubmit
  \/ LoModels
  \/ LoStream
  \/ LoPlay
  \/ LoInitFail
  \/ LoOrphanPlay
  \/ \E i \in 1..MaxLoops : LoDetect(i)
  \/ \E i \in 1..MaxLoops : LoFrame(i)
  \/ LoRerun
  \/ LoUnmount
  \/ \E face \in {"none", "small", "good"} : detectReadiness(face)
  \/ start
  \/ MpStreamOk
  \/ MpPlayOk
  \/ MpStartOk
  \/ MpInitFail
  \/ MpUnmount
  \/ FaModelsLoaded
  \/ FaStreamOk
  \/ FaPlayOk
  \/ FaInitFail
  \/ FaUnmount

SpecFn == InitFn /\ [][NextFn]_vars

(***************************************************************************)
(* The component fed by a frame stream: every frame with a face shows the  *)
(* pose of the challenge the handler tests, and the stream has no face in  *)
(* one frame of every NoFaceEvery, or in every frame                       *)
(***************************************************************************)
InitLive ==
  /\ Calibrated(0)
  /\ PxMount
  /\ FnMount
  /\ FaMount
  /\ TdMount
  /\ RdMount
  /\ LoMount
  /\ ChMount
  /\ feed \in {"oneInTen", "noFace"}
  /\ tick \in 0..(NoFaceEvery - 1)

\* the frame the stream holds at its position; the head moves between two
\* positions from one frame to the next
StreamFrame(f) ==
  IF feed = "noFace" \/ tick = NoFaceEvery - 1
  THEN f = NoFace
  ELSE \E x \in Positions \ {LastX} : f = << Face(Prompted, x, "ok") >>

\* onFaceResults on the next frame of the stream; the camera sends a frame
\* once the render of the last change has run its effects, and goes on for
\* MaxIdle frames with a face after the run has ended
LiveFrame(f) ==
  /\ StreamFrame(f)
  /\ camera = "on"
  /\ Synced
  /\ IF RunEnded THEN idle < MaxIdle /\ idle' = idle + 1 ELSE idle' = idle
  /\ UNCHANGED <<slack, burst, lag>>
  /\ tick' = (tick + 1) % NoFaceEvery
  /\ feed' = feed
  /\ IF f = NoFace
     THEN HandleNoFace
     ELSE validateFaceGeometry(f[1]) /\ HandleValid(f, "frame")

NextLive ==
  \/ \E f \in Frames : LiveFrame(f)
  \/ SyncRefs
  \/ \E i \in 1..MaxInflight : FetchOk(i)
  \/ \E i \in 1..MaxInflight : FetchFail(i)

\* the camera keeps sending frames and React runs the effects of a render
SpecLive ==
  /\ InitLive
  /\ [][NextLive]_vars
  /\ WF_vars(\E f \in Frames : LiveFrame(f))
  /\ WF_vars(SyncRefs)

(***************************************************************************)
(* Properties                                                              *)
(***************************************************************************)
\* the step just taken was onFaceResults on a frame of the given kind
ValidFrameStep == ev'.op = "frame" /\ ev'.face = "valid"
BadFrameStep == ev'.op = "frame" /\ ev'.face \in {"none", "invalid"}

\* the step just taken ran processChallenge, on the metrics it pushed
SequencerStep ==
  ValidFrameStep /\ stepRef = "challenge" /\ baselineRef' # << >>
PassingStep ==
  /\ SequencerStep
  /\ Detected(challengesRef[challengeIndexRef + 1],
              metricsHistoryRef'[Len(metricsHistoryRef')], baselineRef'[1])
FailingStep ==
  /\ SequencerStep
  /\ ~Detected(challengesRef[challengeIndexRef + 1],
               metricsHistoryRef'[Len(metricsHistoryRef')], baselineRef'[1])

\* the completions cover the list in order, each with the hold count reached
CompletedInOrder(done, n) ==
  /\ Len(done) >= 1
  /\ done[1].i = 0
  /\ done[Len(done)].i = n - 1
  /\ \A k \in 1..(Len(done) - 1) : done[k + 1].i - done[k].i \in {0, 1}
  /\ \A k \in 1..Len(done) : done[k].hold >= HOLD_REQUIRED

Passed(req) ==
  /\ req.antiSpoofScore >= MIN_SPOOF_SCORE
  /\ CompletedInOrder(req.done, Len(req.challengesCompleted))

C3_HoldNeverNegative ==
  /\ holdFramesRef >= 0
  /\ [][ /\ holdFramesRef' >= 0
         /\ FailingStep =>
              /\ holdFramesRef' <= holdFramesRef
              /\ holdFramesRef > 0 => holdFramesRef' < holdFramesRef
       ]_vars

C3_Witness ==
  ev.op = "frame" /\ ev.hit = "decay" /\ ev.was = 1 /\ holdFramesRef = 0

\* C4 as claimed: a failing frame that finds the counter at N, 1 <= N <
\* HOLD_REQUIRED, lowers it and leaves it above zero.
C4_SingleFailNeverZeroes ==
  [][ (FailingStep /\ holdFramesRef \in 1..(HOLD_REQUIRED - 1)) =>
        (holdFramesRef' < holdFramesRef /\ holdFramesRef' > 0) ]_vars

\* C4 amended: a failing frame that finds the counter at N, 1 <= N <
\* HOLD_REQUIRED, lowers it by two with a floor of zero: the counter stays
\* above zero exactly when N > 2, and is zeroed for N = 1 and N = 2.
C4_SingleFailDecaysByTwo ==
  [][ (FailingStep /\ holdFramesRef \in 1..(HOLD_REQUIRED - 1)) =>
        /\ holdFramesRef' < holdFramesRef
        /\ holdFramesRef' = Max(0, holdFramesRef - 2)
        /\ holdFramesRef' > 0 <=> holdFramesRef > 2 ]_vars

C4_Witness ==
  ev.op = "frame" /\ ev.hit = "decay" /\ ev.was = 3 /\ holdFramesRef = 1

NothingEvicted == Len(metricsHistoryRef) < METRICS_HISTORY_SIZE

\* C7 as claimed: the baseline is the arithmetic mean of the first K valid
\* Metrics of the session, for ear, mouth and turn.
C7_BaselineIsMean ==
  (baselineRef # << >> /\ NothingEvicted) =>
    /\ baselineRef[1].ear * BASELINE_FRAMES
         = SumEar(metricsHistoryRef, 1, BASELINE_FRAMES)
    /\ baselineRef[1].mouth * BASELINE_FRAMES
         = SumMouth(metricsHistoryRef, 1, BASELINE_FRAMES)
    /\ baselineRef[1].turn * BASELINE_FRAMES
         = SumTurn(metricsHistoryRef, 1, BASELINE_FRAMES)

\* C7 amended: the baseline exists exactly when K valid frames have been
\* handled since the history was last cleared, and it equals the ear, mouth
\* and turn of the K-th of them alone.
C7_BaselineIsKthFrame ==
  /\ baselineRef = << >> <=> Len(metricsHistoryRef) < BASELINE_FRAMES
  /\ (baselineRef # << >> /\ NothingEvicted) =>
       /\ baselineRef[1].ear = metricsHistoryRef[BASELINE_FRAMES].ear
       /\ baselineRef[1].mouth = metricsHistoryRef[BASELINE_FRAMES].mouth
       /\ baselineRef[1].turn = metricsHistoryRef[BASELINE_FRAMES].turn

C7_Witness ==
  /\ baselineRef # << >> /\ NothingEvicted
  /\ \E k \in 1..(BASELINE_FRAMES - 1) :
       metricsHistoryRef[k].ear # metricsHistoryRef[BASELINE_FRAMES].ear

\* the run is collecting its first K samples
Calibrating == stepRef = "challenge" /\ baselineRef = << >>

\* C8 as claimed: a no-face or invalid frame that arrives while samples are
\* being collected restarts the sample count from zero.
C8_FaceLossRestartsCalibration ==
  [][ (BadFrameStep /\ Calibrating) => Len(metricsHistoryRef') = 0 ]_vars

\* C8 amended: a no-face or invalid frame that arrives before K valid
\* samples leaves the samples collected so far and the unset baseline as
\* they are: the collection pauses and resumes, it does not restart.
C8_FaceLossPausesCalibration ==
  [][ (BadFrameStep /\ baselineRef = << >>) =>
        /\ metricsHistoryRef' = metricsHistoryRef
        /\ baselineRef' = << >> ]_vars

C8_Witness ==
  /\ ev.op = "frame" /\ ev.face \in {"none", "invalid"}
  /\ Calibrating /\ step = "challenge"
  /\ Len(metricsHistoryRef) > 0

\* C9 as claimed: during a challenge a no-face or invalid frame resets the
\* hold counter to 0 and leaves baseline, index and completions unchanged.
C9_FaceLossResetsHold ==
  [][ (BadFrameStep /\ stepRef = "challenge" /\ baselineRef # << >>) =>
        /\ holdFramesRef' = 0
        /\ baselineRef' = baselineRef
        /\ challengeIndex' = challengeIndex
        /\ challengeIndexRef' = challengeIndexRef
        /\ completed' = completed ]_vars

\* C10: a no-face or invalid frame changes neither the step (so no run of
\* such frames fails or completes the session, or submits anything) nor the
\* challenge index, the challenge list or the baseline.
C10_FaceLossNotTerminal ==
  [][ BadFrameStep =>
        /\ step' = step /\ stepRef' = stepRef
        /\ inflight' = inflight /\ verified' = verified
        /\ challengeIndex' = challengeIndex
        /\ challengeIndexRef' = challengeIndexRef
        /\ challengesRef' = challengesRef
        /\ baselineRef' = baselineRef ]_vars

C10_Witness ==
  /\ ev.op = "frame" /\ ev.face \in {"none", "invalid"}
  /\ step = "challenge" /\ stepRef = "challenge"
  /\ baselineRef # << >> /\ challengeIndex > 0 /\ ev.was > 0

\* the step changes the claim allows
StepMoves ==
  { <<"loading", "ready">>, <<"loading", "failed">>, <<"ready", "challenge">>,
    <<"challenge", "verifying">>, <<"verifying", "success">>,
    <<"verifying", "failed">>, <<"failed", "ready">> }

\* C11 as claimed: the step changes only along loading->ready,
\* loading->failed, ready->challenge, challenge->verifying,
\* verifying->success, verifying->failed and failed->ready; 'success' is
\* never left and no frame moves the step backward.
C11_StepMovesForward ==
  [][ step' # step => <<step, step'>> \in StepMoves ]_vars

\* C12: the challenge list is always a permutation of the four challenges,
\* and it changes only in startChallenges (as the step goes from 'ready' to
\* 'challenge') and in retry (from 'failed' to 'ready'): never while the
\* step is 'challenge' or 'verifying'.
C12_ChallengeListFixed ==
  /\ Len(challengesRef) = Len(ALL_CHALLENGES)
  /\ \A c \in ChallengeTypes :
       Cardinality({ k \in 1..Len(challengesRef) : challengesRef[k] = c }) = 1
  /\ [][ /\ challengesRef' # challengesRef =>
              /\ ev'.op \in {"start", "retry"}
              /\ step \in {"ready", "failed"}
         /\ step \in {"challenge", "verifying"} =>
              challengesRef' = challengesRef ]_vars

C12_Witness ==
  /\ step = "challenge" /\ ev.op = "frame" /\ ev.hit = "next"
  /\ challengeIndex = Len(challengesRef) - 1
  /\ challengesRef # ALL_CHALLENGES

\* C13: the metrics history never holds more than METRICS_HISTORY_SIZE
\* entries; a valid frame handled with a full window evicts exactly the
\* oldest entry and appends its metrics, the others keeping their order;
\* with room left the frame only appends.
C13_HistoryWindow ==
  /\ Len(metricsHistoryRef) <= METRICS_HISTORY_SIZE
  /\ [][ ValidFrameStep =>
           /\ Len(metricsHistoryRef') >= 1
           /\ IF Len(metricsHistoryRef) = METRICS_HISTORY_SIZE
              THEN /\ Len(metricsHistoryRef') = METRICS_HISTORY_SIZE
                   /\ \A k \in 1..(METRICS_HISTORY_SIZE - 1) :
                        metricsHistoryRef'[k] = metricsHistoryRef[k + 1]
              ELSE /\ Len(metricsHistoryRef') = Len(metricsHistoryRef) + 1
                   /\ \A k \in 1..Len(metricsHistoryRef) :
                        metricsHistoryRef'[k] = metricsHistoryRef[k] ]_vars

\* a full window whose tenth entry is no longer the frame of the baseline
C13_Witness ==
  /\ Len(metricsHistoryRef) = METRICS_HISTORY_SIZE
  /\ ev.op = "frame" /\ ev.face = "valid"
  /\ baselineRef # << >>
  /\ LET m == metricsHistoryRef[BASELINE_FRAMES]
     IN [ear |-> m.ear, mouth |-> m.mouth, turn |-> m.turn] # baselineRef[1]

\* the step just taken was verifyLiveness on a score below the minimum
LowScoreVerifyStep ==
  ev'.op = "verify" /\ spoofScoreRef < MIN_SPOOF_SCORE

ScoreGateNeverRejects == error # "score"

\* no frame of the history moved and the eye openness never changed
Flat(history) ==
  \A k \in 1..Len(history) :
    history[k].movement = 0 /\ history[k].ear = history[1].ear

\* C15 as claimed: a history without movement and with constant eye
\* openness scores below the minimum, and verifyLiveness rejects its run
C15_FlatHistoryRejected ==
  /\ Flat(metricsHistoryRef) /\ ev.op \in {"history", "score"} =>
       spoofScoreRef < MIN_SPOOF_SCORE
  /\ [][ ev'.op = "verify" /\ Flat(metricsHistoryRef) =>
           step' = "failed" /\ error' = "score" ]_vars

\* every check of submit passed, so every contribution was added
AllBonuses ==
  /\ livenessScore.by = "submit"
  /\ livenessScore.naturalMovement /\ livenessScore.humanTiming
  /\ livenessScore.blinkCount >= 1

\* both sub-scores of calcSpoofScore that can be withheld were granted
AllCredits ==
  /\ Len(metricsHistoryRef) >= SCORE_MIN_HISTORY
  /\ movementScoreOf(metricsHistoryRef) = MOVEMENT_CREDIT
  /\ earScoreOf(metricsHistoryRef) = EAR_CREDIT

\* C16 as claimed: both scores lie in [0,1] and the contributions of each
\* add up to exactly 1 when all of them are granted
C16_WeightsSumToOne ==
  /\ spoofScoreRef \in 0..10
  /\ livenessScore.score \in 0..100
  /\ AllCredits =>
       MOVEMENT_CREDIT + EAR_CREDIT + depthScore = 10
  /\ AllBonuses => livenessScore.sum = 100

\* C16: the anti-spoof score lies in [0,1]: it is 0 for a history shorter
\* than 20 entries and otherwise the untruncated sum of its three
\* sub-scores, whose weights add up to 1; the score of submit lies in
\* [0.5,1]: its base and bonuses add up to 1.1 and Math.min cuts the sum to 1
C16_ScoresInRange ==
  /\ spoofScoreRef \in 0..10
  /\ ev.op \in {"history", "score"} =>
       spoofScoreRef =
         IF Len(metricsHistoryRef) < SCORE_MIN_HISTORY THEN 0
         ELSE movementScoreOf(metricsHistoryRef)
              + earScoreOf(metricsHistoryRef) + depthScore
  /\ AllCredits /\ ev.op \in {"history", "score"} => spoofScoreRef = 10
  /\ livenessScore.score \in 0..100
  /\ livenessScore.by = "submit" =>
       /\ livenessScore.score \in BASE_SCORE..100
       /\ livenessScore.score = Min(100, livenessScore.sum)
  /\ AllBonuses => livenessScore.sum = 110 /\ livenessScore.score = 100

C16_Witness ==
  /\ ev.op = "score"
  /\ Len(metricsHistoryRef) > EAR_WINDOW
  /\ AllCredits
  /\ spoofScoreRef = 10

\* the clamp of submit at work
SubmitClamped == AllBonuses /\ livenessScore.sum > livenessScore.score

\* the average movement over history.slice(-20) is nonzero and outside the
\* band of plausible movement
OutOfBand(history) ==
  LET from  == SliceStart(history, MOVEMENT_WINDOW)
      n     == Len(history) - from + 1
      total == SumMovement(history, from, Len(history))
  IN  total > 0 /\ ~ (total > 5 * n /\ total < 500 * n)

\* the scorer was applied to a history long enough to be scored
Scored ==
  /\ ev.op \in {"history", "score"}
  /\ Len(metricsHistoryRef) >= SCORE_MIN_HISTORY

\* what the movement sub-score contributed to the score
MovementPart == spoofScoreRef - earScoreOf(metricsHistoryRef) - depthScore

\* C17 as claimed: nonzero movement outside the band earns a credit
\* strictly between zero and the full credit
C17_PartialCreditOutOfBand ==
  Scored /\ OutOfBand(metricsHistoryRef) =>
    MovementPart > 0 /\ MovementPart < MOVEMENT_CREDIT

\* C17: the movement sub-score is all or nothing: the full credit when the
\* average movement of the last 20 entries is inside the band, and zero
\* otherwise, whether the average is exactly zero or nonzero outside the band
C17_MovementCreditAllOrNothing ==
  Scored =>
    MovementPart =
      IF SumMovement(metricsHistoryRef,
                     SliceStart(metricsHistoryRef, MOVEMENT_WINDOW),
                     Len(metricsHistoryRef)) = 0
         \/ OutOfBand(metricsHistoryRef)
      THEN 0 ELSE MOVEMENT_CREDIT

C17_Witness ==
  /\ ev.op = "score"
  /\ Len(metricsHistoryRef) >= SCORE_MIN_HISTORY
  /\ OutOfBand(metricsHistoryRef)
  /\ metricsHistoryRef[Len(metricsHistoryRef)].movement # metricsHistoryRef[1].movement
  /\ MovementPart = 0

HoldBlinkCompletes ==
  /\ ValidFrameStep
  /\ ev'.hit \in {"next", "last"}
  /\ stepRef = "challenge" /\ baselineRef # << >>
  /\ challengesRef[challengeIndexRef + 1] = "blink"

\* the frame just handled completed the blink challenge of the face-api
\* variant
TwoPhaseBlinkCompletes == challengeComplete' /\ ~challengeComplete

\* the eye openness of the frame pushed last
LastEar(history) == history[Len(history)].ear

TwoPhaseBlinkSeen ==
  /\ blinkState = "done" /\ blinkCount = 1 /\ challengeComplete
  /\ faEv.op = "blink" /\ faEv.was = "closed"

\* C20 as claimed: whichever eye-openness routine is applied to an eye
\* whose corners coincide, it returns the fallback 0.3 and no Infinity or NaN
C20_ZeroWidthFallback ==
  eyePoints.h = 0 /\ earValue.by # "-" =>
    earValue.ear.kind = "finite" /\ earValue.ear = Finite(30)

\* the routine of the face-api variant does so
GuardedZeroWidthFallback ==
  eyePoints.h = 0 /\ earValue.by = "calculateEAR" => earValue.ear = Finite(30)

\* the routine of the FaceMesh component divides by zero
UnguardedZeroWidth ==
  eyePoints.h = 0 /\ earValue.by = "calcEAR" =>
    earValue.ear = IF eyePoints.v1 + eyePoints.v2 = 0 THEN NaN ELSE Infinity

\* the frame just handled was a malformed landmark array
MalformedStep == ev'.op = "frame" /\ ev'.face \in MalformedKinds

\* C21 as claimed: a malformed landmark frame raises no error out of the
\* frame handler and is handled like a frame without a face: both face
\* flags false, nothing else changed
C21_MalformedAsNoFace ==
  [][ MalformedStep =>
        /\ ev'.hit # "TypeError"
        /\ faceDetected' = FALSE /\ faceValid' = FALSE
        /\ Len(metricsHistoryRef') = Len(metricsHistoryRef)
        /\ holdFramesRef' = holdFramesRef
        /\ lastLandmarksRef' = lastLandmarksRef ]_vars

\* what the handler does instead: a short array throws, NaN coordinates
\* enter the history as a valid frame
MalformedOutcome ==
  [][ MalformedStep =>
        IF ev'.face = "short"
        THEN ev'.hit = "TypeError" /\ faceDetected'
        ELSE /\ faceDetected' /\ faceValid'
             /\ Len(metricsHistoryRef') = Len(metricsHistoryRef) + 1 ]_vars

\* the frame just handled was a face of a drawn geometry, seen in lm
GeometryStep == ev'.op = "geometry"
GeometryLm == lastLandmarksRef'[1]

\* bounds for the two quantities the validator does not read, taken as wide
\* as the face-api variant takes them for the face (goodSize: 0.2 to 0.7)
WidthInBounds(lm) == lm.width > 20 /\ lm.width < 70
EyeRatioInBounds(lm) == lm.eyeRatio > 20 /\ lm.eyeRatio < 70

C23_FlatFrameRejected ==
  [][ GeometryStep /\ GeometryLm.zvar < 10 =>
        /\ ~faceValid' /\ faceDetected'
        /\ ev'.face = "invalid"
        /\ UNCHANGED <<metricsHistoryRef, baselineRef, spoofScoreRef,
                       holdFramesRef, challengeIndex, challengeIndexRef,
                       completed, step, inflight>> ]_vars

\* a flat frame with every other quantity in order, met with a hold under way
C23_Witness ==
  /\ ev.op = "geometry" /\ ev.face = "invalid"
  /\ lastLandmarksRef[1].zvar = 1
  /\ lastLandmarksRef[1].ratio = 80 /\ lastLandmarksRef[1].turn = 0
  /\ lastLandmarksRef[1].eyesAbove
  /\ holdFramesRef > 0

\* C24 as claimed: the first frame whose metrics enter the history of an
\* attempt, after mount, start or retry, has movement zero
C24_FirstFrameMovementZero ==
  [][ ValidFrameStep /\ metricsHistoryRef = << >> =>
        metricsHistoryRef'[1].movement = 0 ]_vars

\* the reference of the movement is dropped by retry and at mount only
MovementReferenceKept ==
  [][ /\ ev'.op = "start" => lastLandmarksRef' = lastLandmarksRef
      /\ ev'.op = "retry" => lastLandmarksRef' = << >> ]_vars

\* the component is unmounted and its initialisation has come to its end
TornDown ==
  /\ variant # "-"
  /\ ~mounted
  /\ initAt \in {"ready", "failed", "abandoned"}

\* C25 as claimed: whenever the component is unmounted, no camera stream
\* is left running once the initialisation has ended
C25_TeardownStopsStream == TornDown => stream # "live"

\* the face-api variant, which checks its mounted flag after each await
\* and keeps the stream in a ref, leaves no stream running
FaTeardownStopsStream ==
  TornDown /\ variant = "face-api" => stream # "live"

\* the request verifyLiveness has just put in flight
Submitted == inflight'[Len(inflight')]

\* the challenges completed, in the order the frames completed them
CompletedOrder(done) == [k \in 1..Len(done) |-> challengesRef[done[k].i + 1]]

\* C26 as claimed: every request submitted carries the session's
\* challenges, and its score is the output of the scorer on the metrics
\* history at completion
C26_PayloadIsScoreAndList ==
  [][ Len(inflight') > Len(inflight) =>
        /\ "challengesCompleted" \in DOMAIN Submitted
        /\ Submitted.challengesCompleted = challengesRef'
        /\ Submitted.livenessScore = spoofScoreRef' ]_vars

\* in the FaceMesh component the list submitted is the order of completion
\* as long as no challenge was completed twice
FaceMeshPayloadOrder ==
  [][ Len(inflight') > Len(inflight) =>
        /\ Submitted.livenessScore = calcSpoofScore(metricsHistoryRef')
        /\ Len(completed') = Len(challengesRef') =>
              Submitted.challengesCompleted = CompletedOrder(completed') ]_vars

\* of the FaceMesh component alone: the score is the scorer's output and
\* the list is the session's list, whose order is that of completion
\* unless the last challenge was completed twice
FaceMeshPayload ==
  [][ Len(inflight') > Len(inflight) =>
        /\ Submitted.livenessScore = calcSpoofScore(metricsHistoryRef')
        /\ Submitted.antiSpoofScore = Submitted.livenessScore
        /\ Submitted.challengesCompleted = challengesRef' ]_vars

\* every challenge of the session has been completed and verifyLiveness
\* has been called
SessionCompleted ==
  /\ Len(completed) = Len(challengesRef)
  /\ step \in {"verifying", "success", "failed"}

\* C27: a stream of passing frames with no face in one frame of ten
\* completes every challenge and the session; a stream without any face
\* never completes a challenge
C27_NoFaceInterleaved ==
  /\ (feed = "oneInTen") ~> SessionCompleted
  /\ [](feed = "noFace" =>
          completed = << >> /\ holdFramesRef = 0 /\ step = "challenge")

\* the session completed on a stream that lost the face in the middle of
\* the last hold: two frames of it came after the frame without a face
C27_Witness ==
  /\ feed = "oneInTen"
  /\ SessionCompleted
  /\ step = "verifying"
  /\ ev.op = "frame" /\ ev.hit = "last" /\ ev.was = HOLD_REQUIRED - 1
  /\ tick = 2

\* the FaceMesh component leaves 'ready' by the start button alone, pressed
\* while the last frame handled had a valid face
FaceMeshLeavesReady ==
  [][ step = "ready" /\ step' # "ready" =>
        /\ ev'.op = "start"
        /\ step' = "challenge"
        /\ faceValid /\ faceDetected ]_vars

\* the start button of the FaceMesh component pressed while the last frame
\* handled had no face or an invalid one leaves the step 'ready'
FaceMeshStartBlocked ==
  [][ ev'.op = "start" /\ ~faceValid =>
        step' = "ready" /\ error' = "position" ]_vars

\* faceValid is the verdict on the last frame handled
FaceValidIsLastFrame ==
  [][ /\ ev'.op = "frame" => faceValid' = (ev'.face = "valid")
      /\ ev'.op # "frame" => faceValid' = faceValid ]_vars

\* C28 as claimed: the step leaves 'ready' only by the start action taken
\* when the last frame handled had a present, valid face
C28_StartNeedsValidFace ==
  [][ phase = "ready" /\ phase' # "ready" => lastFace = "good" ]_vars

\* what part_001 does: start leaves 'ready' once readyToStart has been set,
\* whatever the last frame was
StartNeedsReadyToStart ==
  [][ phase = "ready" /\ phase' # "ready" =>
        readyToStart /\ phase' = "challenge" ]_vars

\* retry, or the start button when it is not refused
ResetStep == ev'.op = "retry" \/ (ev'.op = "start" /\ ev'.hit = "started")

\* C29: retry and start leave no baseline, an empty history, hold 0,
\* score 0 and index 0; and at any time the baseline in use was taken from
\* the current history and the score is that of the current history, so
\* nothing of an earlier attempt enters a challenge or the score
C29_EvidenceDiscarded ==
  /\ [][ ResetStep =>
          /\ baselineRef' = << >>
          /\ metricsHistoryRef' = << >>
          /\ holdFramesRef' = 0
          /\ spoofScoreRef' = 0
          /\ challengeIndex' = 0 ]_vars
  /\ [](baselineRef # << >> => Len(metricsHistoryRef) >= BASELINE_FRAMES)
  /\ [](metricsHistoryRef # << >> =>
          spoofScoreRef = calcSpoofScore(metricsHistoryRef))
  /\ [](step = "challenge" /\ Synced => challengeIndexRef < Len(challengesRef))

\* retry has just been pressed after an attempt that failed at its last
\* challenge, whose index the ref still holds
C29_Witness ==
  /\ ev.op = "retry"
  /\ challengeIndexRef = Len(challengesRef) - 1
  /\ challengeIndex = 0
  /\ metricsHistoryRef = << >>
  /\ baselineRef = << >>

\* the FaceMesh and the Camera are running
Initialized == camera = "on"

\* C30 as claimed: in 'ready' and in every later step that is not 'failed'
\* the camera and the landmark model have been initialised
C30_ReadyMeansInitialized ==
  step \in {"ready", "challenge", "verifying", "success"} => Initialized

\* what initMediaPipe itself ensures: it sets 'ready' only after start()
\* of the camera has returned
InitSetsReadyWhenStarted ==
  [][ ev'.op = "initDone" => step' = "ready" /\ Initialized' ]_vars

\* a failed initialisation is never repeated
FailedInitIsFinal ==
  [][ camera = "failed" => camera' = "failed" ]_vars

\* C35: while the baseline is unset the hold counter and the challenge
\* index are 0, and a frame handled without a baseline, none being set by
\* that frame either, evaluates no challenge predicate and moves nothing
C35_NoProgressBeforeBaseline ==
  /\ [](baselineRef = << >> => holdFramesRef = 0 /\ challengeIndex = 0)
  /\ [][ ev'.op = "frame" /\ baselineRef' = << >> =>
          /\ ev'.hit \in {"-", "idle"}
          /\ UNCHANGED <<holdFramesRef, challengeIndex, completed, step>> ]_vars

\* the index the sequencer reads, the ref, is 0 as well while the baseline
\* is unset
RefIndexZeroBeforeBaseline ==
  baselineRef = << >> => challengeIndexRef = 0

\* a frame of the challenge step has been handled before the baseline
\* exists, showing the pose of the first challenge
C35_Witness ==
  /\ ev.op = "frame" /\ ev.face = "valid" /\ ev.hit = "idle"
  /\ stepRef = "challenge"
  /\ baselineRef = << >>
  /\ metricsHistoryRef # << >>
  /\ lastLandmarksRef = << Face(challengesRef[1], LastX, "ok") >>

\* C36: a frame without a face and a frame the validator rejects leave
\* the history and the score as they are, and the history grows only by
\* the metrics of a frame that passed the validator
C36_HistoryOfValidFrames ==
  [][ /\ ev'.op = "frame" /\ ev'.face \in {"none", "invalid"} =>
           UNCHANGED <<metricsHistoryRef, spoofScoreRef>>
      /\ metricsHistoryRef' # metricsHistoryRef /\ metricsHistoryRef' # << >> =>
           /\ ev'.op = "frame" /\ ev'.face = "valid"
           /\ validateFaceGeometry(lastLandmarksRef'[1])
           /\ metricsHistoryRef'[Len(metricsHistoryRef')]
                = Metrics(lastLandmarksRef'[1], lastLandmarksRef) ]_vars

\* a rejected frame has been handled during a challenge, after a history
\* and a score had been built up
C36_Witness ==
  /\ ev.op = "frame" /\ ev.face = "invalid"
  /\ stepRef = "challenge"
  /\ Len(metricsHistoryRef) >= SCORE_MIN_HISTORY
  /\ spoofScoreRef > 0
  /\ ~validateFaceGeometry(lastLandmarksRef[1])

\* C37 as claimed: in the challenge step the index is within the list, it
\* never decreases during a run, and no challenge is completed twice
C37_IndexInRangeAndForward ==
  /\ [](step = "challenge" =>
          /\ challengeIndex \in 0..(Len(challengesRef) - 1)
          /\ challengeIndexRef \in 0..(Len(challengesRef) - 1))
  /\ [][ step = "challenge" /\ step' = "challenge" =>
          /\ challengeIndex' >= challengeIndex
          /\ challengeIndexRef' >= challengeIndexRef ]_vars
  /\ [](\A j, k \in 1..Len(completed) :
          j < k => completed[j].i < completed[k].i)

\* the part that holds: the index is within the list and never decreases
IndexInRangeAndMonotone ==
  /\ [](step = "challenge" =>
          /\ challengeIndex \in 0..(Len(challengesRef) - 1)
          /\ challengeIndexRef \in 0..(Len(challengesRef) - 1))
  /\ [][ step = "challenge" /\ step' = "challenge" =>
          /\ challengeIndex' >= challengeIndex
          /\ challengeIndexRef' >= challengeIndexRef ]_vars

\* C33 as claimed: verifyLiveness sends a request only for a run that has
\* not sent one, that is while the step is still 'challenge'
C33_SubmittedOnce ==
  [][ Len(inflight') > Len(inflight) => step = "challenge" ]_vars

\* with the refs in sync a run submits once
SubmittedOnceWhenSynced ==
  [][ Len(inflight') > Len(inflight) /\ Synced => step = "challenge" ]_vars

(***************************************************************************)
(* The challenge run of part_002: start, the challenge branch of detect,   *)
(* nextStep on its timer, the effect that sets stepRef, and the response   *)
(* to submit.  The user gives the gesture of the prompt on the screen.     *)
(***************************************************************************)
FACE_API_CHALLENGES == <<"blink", "left", "right">>
YAW_FRAMES == 5
TURN_DEGREES == 18
TURN_HOLD == 8

\* the draws of shuffle on three challenges: 0 <= floor(random * (i + 1)) <= i
ShuffleDraws ==
  { r \in [2..Len(FACE_API_CHALLENGES) -> 1..Len(FACE_API_CHALLENGES)] :
      \A i \in DOMAIN r : r[i] <= i }

\* what detect measures on a frame: avgEAR x100 and yaw in degrees
ChPoses == {"front", "closed", "left", "right"}
PoseOf(p) ==
  CASE p = "closed" -> [ear |-> 10, yaw |-> 0]
    [] p = "left"   -> [ear |-> 30, yaw |-> 25]
    [] p = "right"  -> [ear |-> 30, yaw |-> -25]
    [] OTHER        -> [ear |-> 30, yaw |-> 0]

\* part_002 in phase 'ready' with a face accepted, before start; detect
\* and nextStep read the challenges of the render they were made in
ChallengeReady(w) ==
  /\ wired = w
  /\ chPhase = "ready"
  /\ chStep = 0
  /\ chStepRef = 0
  /\ chChallenges = << >>
  /\ seen = << >>
  /\ holdFrames = 0
  /\ chEar = << >>
  /\ chYaw = << >>
  /\ chBlink = "waiting"
  /\ chComplete = FALSE
  /\ timers = 0
  /\ actionTimes = 0
  /\ submitted = 0
  /\ fed = 0
  /\ slips = 0
  /\ lagged = 0
  /\ lastPose = "front"
  /\ chEv = "ready"

\* the challenge the screen shows: challenges[step]
Prompt ==
  IF chStep + 1 <= Len(chChallenges) THEN chChallenges[chStep + 1] ELSE "-"

\* the frames for which the user waits before the gesture: those the
\* detector calibrates on, and those React may take to set stepRef
Calm ==
  (IF Prompt = "blink" THEN CALIBRATION_FRAMES ELSE YAW_FRAMES) + MaxLag

\* the pose of a user who gives the gesture of the prompt: the eyes open,
\* then closed for a frame and open again; the head to the front, then
\* turned and held
UserPose ==
  CASE Prompt = "blink" -> IF fed = Calm THEN "closed" ELSE "front"
    [] Prompt \in {"left", "right"} -> IF fed < Calm THEN "front" ELSE Prompt
    [] OTHER -> "front"

\* the user blinks again and again, and holds a turn
NextFed ==
  IF Prompt = "blink" /\ fed > Calm THEN Calm ELSE Min(fed + 1, MaxFed)

\* turnAmount > 18 or < -18, turnAmount = yaw - baselineYaw.current, the
\* mean of yawValues
TurnPassed(cur, yaw, values) ==
  LET n == Len(values)
      turn == yaw * n - SumFirst(values, n)
  IN IF cur = "left" THEN turn > TURN_DEGREES * n
                     ELSE turn < (0 - TURN_DEGREES) * n

\* setTimeout(nextStep, 300) after challengeComplete.current = true
Completed ==
  /\ chComplete' = TRUE
  /\ timers' = timers + 1

\* the detector of challenges[currentStep] on a frame with the measures m
ChallengeBranch(m) ==
  LET cur == IF chStepRef + 1 <= Len(seen) THEN seen[chStepRef + 1] ELSE "-"
      values == PushEar(chEar, m.ear)
      sum == SumFirst(values, CALIBRATION_FRAMES)
  IN      CASE cur = "blink" ->
                 /\ chEar' = values
                 /\ IF Len(values) < CALIBRATION_FRAMES
                    THEN UNCHANGED <<chBlink, chComplete, timers>>
                    ELSE IF chBlink = "waiting"
                    THEN /\ chBlink' = IF BelowThreshold(m.ear, sum)
                                       THEN "closed" ELSE "waiting"
                         /\ UNCHANGED <<chComplete, timers>>
                    ELSE IF chBlink = "closed" /\ Recovered(m.ear, sum)
                    THEN chBlink' = "done" /\ Completed
                    ELSE UNCHANGED <<chBlink, chComplete, timers>>
                 /\ UNCHANGED <<chYaw, holdFrames>>
            [] cur \in {"left", "right"} ->
                 /\ IF Len(chYaw) < YAW_FRAMES
                    THEN /\ chYaw' = Append(chYaw, m.yaw)
                         /\ UNCHANGED <<holdFrames, chComplete, timers>>
                    ELSE /\ chYaw' = chYaw
                         /\ IF TurnPassed(cur, m.yaw, chYaw)
                            THEN /\ holdFrames' = holdFrames + 1
                                 /\ IF holdFrames + 1 >= TURN_HOLD
                                    THEN Completed
                                    ELSE UNCHANGED <<chComplete, timers>>
                            ELSE /\ holdFrames' = Max(0, holdFrames - 1)
                                 /\ UNCHANGED <<chComplete, timers>>
                 /\ UNCHANGED <<chEar, chBlink>>
            [] OTHER ->
                 UNCHANGED <<chEar, chYaw, chBlink, holdFrames, chComplete,
                             timers>>

\* a detect that goes on detecting a challenge already completed
DetectChallenge_Unguarded(m) ==
  IF chPhase = "challenge" /\ Len(seen) > 0
  THEN ChallengeBranch(m)
  ELSE UNCHANGED <<chEar, chYaw, chBlink, holdFrames, chComplete, timers>>

\* the challenge branch of detect on a frame with the measures m
DetectChallenge(m) ==
  IF chPhase = "challenge" /\ ~chComplete /\ Len(seen) > 0
  THEN ChallengeBranch(m)
  ELSE UNCHANGED <<chEar, chYaw, chBlink, holdFrames, chComplete, timers>>

\* start, pressed with readyToStart set: the shuffled list is put in the
\* state, the tracking is reset, the phase is 'challenge'.  The render that
\* follows makes a new detect and a new nextStep; the loop keeps the first
ChStart(r) ==
  /\ wired # "-"
  /\ chPhase = "ready"
  /\ chChallenges' = shuffle(FACE_API_CHALLENGES, r)
  /\ seen' = IF wired = "routine" THEN chChallenges' ELSE seen
  /\ chStep' = 0
  /\ holdFrames' = 0
  /\ chComplete' = FALSE
  /\ chEar' = << >>
  /\ chBlink' = "waiting"
  /\ chYaw' = << >>
  /\ actionTimes' = 0
  /\ chPhase' = "challenge"
  /\ fed' = 0
  /\ chEv' = "start"
  /\ UNCHANGED <<wired, chStepRef, timers, submitted, slips, lagged, lastPose>>
  /\ UNCHANGED <<fmvars, px, fn, fa, td, rd, lo, sf>>

\* a frame of the camera handled by detect; React sets stepRef within
\* MaxLag frames of setStep
ChCamera(p) ==
  /\ wired # "-"
  /\ chPhase = "challenge"
  /\ submitted = 0
  /\ IF chStepRef # chStep
     THEN lagged < MaxLag /\ lagged' = lagged + 1
     ELSE lagged' = lagged
  /\ DetectChallenge(PoseOf(p))
  /\ lastPose' = p
  /\ chEv' = "frame"
  /\ UNCHANGED <<wired, chPhase, chStep, chStepRef, chChallenges, seen,
                 actionTimes, submitted>>
  /\ UNCHANGED <<fmvars, px, fn, fa, td, rd, lo, sf>>

\* the user gives the next frame of the gesture
ChFrame ==
  /\ ChCamera(UserPose)
  /\ fed' = NextFed
  /\ slips' = slips

\* the user leaves the gesture for a frame
ChSlip(p) ==
  /\ slips < MaxSlips
  /\ p # UserPose
  /\ ChCamera(p)
  /\ fed' = fed
  /\ slips' = slips + 1

\* detect on the picture that stays after nextStep has stopped the tracks,
\* when the loop was awaiting the model at cancelAnimationFrame
ChStill ==
  /\ wired # "-"
  /\ chPhase = "challenge"
  /\ submitted > 0
  /\ DetectChallenge(PoseOf(lastPose))
  /\ chEv' = "still"
  /\ UNCHANGED <<wired, chPhase, chStep, chStepRef, chChallenges, seen,
                 actionTimes, submitted, fed, slips, lagged, lastPose>>
  /\ UNCHANGED <<fmvars, px, fn, fa, td, rd, lo, sf>>

\* the timer of a completed challenge calls nextStep
ChNextStep ==
  /\ wired # "-"
  /\ timers > 0
  /\ timers' = timers - 1
  /\ actionTimes' = actionTimes + 1
  /\ holdFrames' = 0
  /\ chComplete' = FALSE
  /\ chEar' = << >>
  /\ chBlink' = "waiting"
  /\ chYaw' = << >>
  /\ IF chStepRef >= Len(seen) - 1
     THEN /\ submitted' = submitted + 1
          /\ UNCHANGED <<chStep, fed>>
     ELSE /\ chStep' = chStep + 1
          /\ fed' = 0
          /\ submitted' = submitted
  /\ chEv' = "nextStep"
  /\ UNCHANGED <<wired, chPhase, chStepRef, chChallenges, seen, slips, lagged,
                 lastPose>>
  /\ UNCHANGED <<fmvars, px, fn, fa, td, rd, lo, sf>>

\* useEffect(() => { stepRef.current = step }, [step])
ChSync ==
  /\ wired # "-"
  /\ chStepRef # chStep
  /\ chStepRef' = chStep
  /\ lagged' = 0
  /\ chEv' = "sync"
  /\ UNCHANGED <<wired, chPhase, chStep, chChallenges, seen, holdFrames,
                 chEar, chYaw, chBlink, chComplete, timers, actionTimes,
                 submitted, fed, slips, lastPose>>
  /\ UNCHANGED <<fmvars, px, fn, fa, td, rd, lo, sf>>

\* the request of submit settles: setPhase('done') or setPhase('error')
ChResponse(ok) ==
  /\ wired # "-"
  /\ chPhase = "challenge"
  /\ submitted > 0
  /\ chPhase' = IF ok THEN "done" ELSE "error"
  /\ chEv' = "response"
  /\ UNCHANGED <<wired, chStep, chStepRef, chChallenges, seen, holdFrames,
                 chEar, chYaw, chBlink, chComplete, timers, actionTimes,
                 submitted, fed, slips, lagged, lastPose>>
  /\ UNCHANGED <<fmvars, px, fn, fa, td, rd, lo, sf>>

InitRun ==
  /\ Calibrated(0)
  /\ PxMount
  /\ FnMount
  /\ FaMount
  /\ TdMount
  /\ RdMount
  /\ LoMount
  /\ SfMount
  /\ \E w \in {"running", "routine"} : ChallengeReady(w)

NextRun ==
  \/ \E r \in ShuffleDraws : ChStart(r)
  \/ ChFrame
  \/ \E p \in ChPoses : ChSlip(p)
  \/ ChStill
  \/ ChNextStep
  \/ ChSync
  \/ \E ok \in BOOLEAN : ChResponse(ok)

\* the loop keeps handling frames, timers fire, React runs the effects of
\* a render and the request settles
SpecRun ==
  /\ InitRun
  /\ [][NextRun]_vars
  /\ WF_vars(ChFrame)
  /\ WF_vars(ChNextStep)
  /\ WF_vars(ChSync)
  /\ WF_vars(\E ok \in BOOLEAN : ChResponse(ok))

\* the loops that are running: a request pending or a detect call awaiting
ActiveLoops == { i \in 1..MaxLoops : loops[i] # "none" }

\* C31 as claimed: the face-api component of LivenessStep.tsx never has
\* two detection loops running at once
C31_SingleLoop ==
  comp = "face-api" => Cardinality(ActiveLoops) <= 1

\* a detect call awaiting the model does not outlive a re-run of the init
\* effect
RerunEndsAwaitingDetect ==
  comp = "face-api" /\ loEv = "rerun" => \A i \in 1..MaxLoops : loops[i] # "awaiting"

\* part_002, whose init effect runs once, has one loop while mounted
SingleLoopWhileMounted ==
  comp = "part_002" /\ alive => Cardinality(ActiveLoops) <= 1

\* C32 as claimed: once the cleanup of part_002 has run, no detect call is
\* made, no frame is handled and no loop is started
C32_NoFrameAfterTeardown ==
  [][ comp = "part_002" /\ ~alive =>
        loEv' \notin {"detect", "frame", "loop"} ]_vars

\* a completed challenge waits for its one timer: no frame changes the
\* progress, and no second timer is set
OneTimerPerCompletion ==
  /\ [](timers <= 1 /\ (chComplete <=> timers = 1))
  /\ [][ chComplete /\ chEv' \in {"frame", "still"} =>
           UNCHANGED <<holdFrames, chBlink, chEar, chYaw, chComplete, timers,
                       chStep, actionTimes, submitted>> ]_vars
  /\ [][ timers' > timers => ~chComplete /\ chEv' \in {"frame", "still"} ]_vars

C38_SubmitsAfterLast ==
  /\ (chPhase = "challenge") ~> (submitted = 1 \/ slips > 0)
  /\ [](submitted <= 1)
  /\ [][ submitted' > submitted =>
           /\ chStepRef = Len(chChallenges) - 1
           /\ actionTimes' = Len(chChallenges) ]_vars

\* detect and nextStep of the render after start do what C38 says
RoutineSubmitsAfterLast ==
  /\ (wired = "routine" /\ chPhase = "challenge")
       ~> (submitted = 1 \/ slips > 0)
  /\ [](submitted <= 1)
  /\ [][ submitted' > submitted =>
           /\ chStepRef = Len(chChallenges) - 1
           /\ actionTimes' = Len(chChallenges) ]_vars

\* in the mounted component no frame moves the run: the loop runs the
\* detect of the first render, whose challenges is the empty list
RunningNeverMoves ==
  wired = "running" =>
    /\ seen = << >>
    /\ chStep = 0
    /\ holdFrames = 0
    /\ chEar = << >>
    /\ chYaw = << >>
    /\ chBlink = "waiting"
    /\ ~chComplete
    /\ timers = 0
    /\ actionTimes = 0
    /\ submitted = 0

\* the user of the mounted component has blinked and turned for the prompt
RunningUserActs ==
  /\ wired = "running"
  /\ chPhase = "challenge"
  /\ Prompt \in {"left", "right"}
  /\ fed = MaxFed

====
